---- MODULE Spec2Model ----
(***************************************************************************)
(* EasyReads backend: the admin gate, the book controller, the book-request *)
(* controller (/api/requests) and the book-request routes                   *)
(* (/api/book-requests), as a state machine over the two document           *)
(* collections.  Strings are sequences of one-character strings, so that    *)
(* trim, toLowerCase, split and the regular expressions are computed.       *)
(***************************************************************************)
EXTENDS Naturals, Integers, Sequences, FiniteSets, TLC

(***************************************************************************)
(* Bounds of the model                                                      *)
(***************************************************************************)
MaxReq == 1
MaxBooks == 2
MaxTime == 2
MaxUpvotes == 3
MaxViews == 3
MaxListed == 3
MaxEnvLen == 3
MaxMailLen == 2
MaxWords == 2
MaxCalls == 2
MaxRedirects == 4
MaxReviews == 4
MaxChat == 2
MaxEmailLen == 6
MaxDocs == 2
NumProcs == 2

(***************************************************************************)
(* JavaScript strings                                                       *)
(***************************************************************************)
Upper == {"A", "U", "R"}
Lower == {"a", "u", "r", "b", "c", "o", "t", "n"}
Digits == {"0", "1", "2", "3", "4", "5", "6", "7", "8", "9"}
Space == {" "}

\* \w of a JavaScript regular expression
WordChar(c) == c \in Upper \cup Lower \cup Digits \cup {"_"}

\* String.prototype.toLowerCase, one character
LowerChar(c) ==
  CASE c = "A" -> "a"
    [] c = "U" -> "u"
    [] c = "R" -> "r"
    [] OTHER -> c

ToLowerCase(s) == [i \in 1..Len(s) |-> LowerChar(s[i])]

RECURSIVE TrimStart(_)
TrimStart(s) ==
  IF s = <<>> THEN <<>>
  ELSE IF Head(s) \in Space THEN TrimStart(Tail(s)) ELSE s

RECURSIVE TrimEnd(_)
TrimEnd(s) ==
  IF s = <<>> THEN <<>>
  ELSE IF s[Len(s)] \in Space THEN TrimEnd(SubSeq(s, 1, Len(s) - 1)) ELSE s

\* String.prototype.trim
Trim(s) == TrimEnd(TrimStart(s))

\* String.prototype.split(','): the pieces between the commas, in order
RECURSIVE SplitFrom(_, _)
SplitFrom(s, cur) ==
  IF s = <<>> THEN <<cur>>
  ELSE IF Head(s) = "," THEN <<cur>> \o SplitFrom(Tail(s), <<>>)
  ELSE SplitFrom(Tail(s), Append(cur, Head(s)))

SplitComma(s) == SplitFrom(s, <<>>)

\* JavaScript truthiness of an optional string: undefined and '' are falsy.
\* An absent value is the empty sequence of the field's type wrapped in a
\* body record whose domain lacks the field (see Has).
Has(body, f) == f \in DOMAIN body
Truthy(body, f) == Has(body, f) /\ body[f] # <<>>

(***************************************************************************)
(* adminAuth.js                                                             *)
(***************************************************************************)
\* getAdminEmails: split(',').map(trim().toLowerCase()).filter(length > 0)
getAdminEmails(adminEnv) ==
  IF adminEnv = <<>> THEN {}
  ELSE { ToLowerCase(Trim(SplitComma(adminEnv)[i])) :
           i \in { j \in 1..Len(SplitComma(adminEnv)) :
                     Len(ToLowerCase(Trim(SplitComma(adminEnv)[j]))) > 0 } }

\* isAdminEmail: falsy email is no admin; otherwise includes(email.toLowerCase())
isAdminEmail(adminEnv, email) ==
  IF email = <<>> THEN FALSE
  ELSE ToLowerCase(email) \in getAdminEmails(adminEnv)

(***************************************************************************)
(* The e-mail pattern of createBookRequest                                  *)
(*   /^\w+([\.-]?\w+)*@\w+([\.-]?\w+)*(\.\w{2,3})+$/                       *)
(* run as the automaton of the expression: the set of positions of the     *)
(* pattern that the text read so far can be at.                             *)
(***************************************************************************)
EmailStep(q, c) ==
  CASE q = "L0" -> IF WordChar(c) THEN {"L1"} ELSE {}
    [] q = "L1" -> IF WordChar(c) THEN {"L1"}
                   ELSE IF c \in {".", "-"} THEN {"L2"}
                   ELSE IF c = "@" THEN {"D0"} ELSE {}
    [] q = "L2" -> IF WordChar(c) THEN {"L1"} ELSE {}
    [] q = "D0" -> IF WordChar(c) THEN {"D1"} ELSE {}
    [] q = "D1" -> IF WordChar(c) THEN {"D1"}
                   ELSE IF c = "." THEN {"D2", "T0"}
                   ELSE IF c = "-" THEN {"D2"} ELSE {}
    [] q = "D2" -> IF WordChar(c) THEN {"D1"} ELSE {}
    [] q = "T0" -> IF WordChar(c) THEN {"T1"} ELSE {}
    [] q = "T1" -> IF WordChar(c) THEN {"T2"} ELSE {}
    [] q = "T2" -> IF WordChar(c) THEN {"T3"}
                   ELSE IF c = "." THEN {"T0"} ELSE {}
    [] q = "T3" -> IF c = "." THEN {"T0"} ELSE {}
    [] OTHER -> {}

RECURSIVE EmailRun(_, _)
EmailRun(qs, s) ==
  IF s = <<>> THEN qs
  ELSE EmailRun(UNION { EmailStep(q, Head(s)) : q \in qs }, Tail(s))

\* emailRegex.test(s)
emailRegexTest(s) == EmailRun({"L0"}, s) \cap {"T2", "T3"} # {}


(***************************************************************************)
(* Inputs: callers (req.user), e-mails, notes, ids                          *)
(***************************************************************************)
AdminMailUpper == <<"A", "@", "b", ".", "c", "o">>
UserMail == <<"u", "@", "b", ".", "c", "o">>
UserMailUpper == <<"U", "@", "b", ".", "c", "o">>
RootMail == <<"r", "@", "b", ".", "c", "o">>

\* the configuration of the running server
ServerAdminEnv == <<" ">> \o AdminMailUpper \o <<" ", ",", ",">> \o RootMail

\* req.user as the authentication middleware leaves it: auth = FALSE is
\* "req.user undefined", email = <<>> is "no email in the token"
Anonymous == [auth |-> FALSE, email |-> <<>>]
User == [auth |-> TRUE, email |-> UserMail]
Admin == [auth |-> TRUE, email |-> AdminMailUpper]
Callers == { Anonymous, User, Admin }

\* the test `!req.user || !isAdminEmail(req.user.email)` of the controllers
NotAdmin(env, caller) == ~caller.auth \/ ~isAdminEmail(env, caller.email)

Note1 == <<"n">>
\* bodies of approve and reject: adminNotes optional
NotesBodies ==
  { <<>> } \cup { [adminNotes |-> n] : n \in { <<>>, <<" ">>, <<" ", "n", " ">> } }

\* MongoDB ObjectId strings: 24 hexadecimal characters
HexChar(c) == c \in Digits \cup {"a", "b", "c", "A"}
ObjectIdLen == 24
isObjectIdString(id) ==
  Len(id) = ObjectIdLen /\ \A i \in 1..Len(id) : HexChar(id[i])

DigitChar(n) ==
  CASE n = 0 -> "0" [] n = 1 -> "1" [] n = 2 -> "2" [] n = 3 -> "3"
    [] n = 4 -> "a" [] n = 5 -> "b" [] OTHER -> "c"

\* the _id of the n-th document a collection stores
ObjectId(n) == [i \in 1..ObjectIdLen |-> IF i = ObjectIdLen THEN DigitChar(n) ELSE "0"]

\* a well-formed id no document has, and a malformed one
UnknownId == ObjectId(0)
MalformedId == <<"1", "2">>

StatusEnum == {"pending", "approved", "rejected"}

\* JSON null as the value of status
Null == "null"

\* the enum validator of a String path without required: null passes
enumValidator(v) == v = Null \/ v \in StatusEnum

(***************************************************************************)
(* State                                                                    *)
(***************************************************************************)
VARIABLES
  adminEnv,   \* process.env.ADMIN_EMAILS
  requests,   \* the bookrequests collection: document number -> document
  books,      \* the books collection: document number -> document
  now,        \* the clock read by new Date()
  last,       \* the last call answered: operation, caller, document, status code
  inflight,   \* handlers suspended at an await: process -> local state
  input,      \* the request body under test (pure-function specifications)
  okCalls,    \* how many calls of each counting endpoint were answered 200
  reply,      \* the JSON body of the last answer (list and chat endpoints)
  openai,     \* the completion client: configured or not, calls made so far
  ui          \* the state of the React client: router and chat widget

vars == <<adminEnv, requests, books, now, last, inflight, input, okCalls, reply,
          openai, ui>>

\* no client running
NoUi == <<>>

\* no OPENAI_API_KEY: the client stays null
NoClient == [key |-> FALSE, client |-> FALSE, calls |-> 0]

\* no body recorded
NoReply == <<>>

NoCall == [op |-> "none", code |-> 0, caller |-> Anonymous, doc |-> 0]

Answer(op, code, caller, doc) ==
  [op |-> op, code |-> code, caller |-> caller, doc |-> doc]

ReqIdParams == { ObjectId(n) : n \in 1..MaxReq } \cup {UnknownId, MalformedId}

\* a deleted document: its _id is never used again
GoneRequest ==
  [exists |-> FALSE, title |-> <<>>, requesterEmail |-> <<>>, requestedBy |-> <<>>,
   requestedByUid |-> <<>>, status |-> "pending", adminNotes |-> <<>>,
   upvotes |-> 0, respondedBy |-> <<>>, respondedAt |-> 0]

\* Model.findById: the number of the stored document with that _id, 0 if none
FindRequest(id) ==
  IF \E n \in DOMAIN requests : requests[n].exists /\ ObjectId(n) = id
  THEN CHOOSE n \in DOMAIN requests : requests[n].exists /\ ObjectId(n) = id
  ELSE 0

\* the number of the next inserted request
NextReqNo == Len(requests) + 1

(***************************************************************************)
(* bookRequestController.js (/api/requests)                                 *)
(***************************************************************************)
\* the bodies the lifecycle specification creates requests with
LifecycleBodies ==
  { [title |-> <<" ", "t", " ">>, author |-> <<"o">>, requesterEmail |-> UserMailUpper],
    [title |-> <<"t">>, author |-> <<"o">>, requesterEmail |-> UserMail,
     status |-> "approved"],
    [title |-> <<"t">>, author |-> <<"o">>, requesterEmail |-> <<" ">> \o UserMail],
    [author |-> <<"o">>, requesterEmail |-> UserMail] }

\* createValidation without the test of the e-mail pattern
createValidationNoPattern(body) ==
  IF ~Truthy(body, "title") \/ Trim(body.title) = <<>> THEN 1
  ELSE IF ~Truthy(body, "author") \/ Trim(body.author) = <<>> THEN 2
  ELSE IF ~Truthy(body, "requesterEmail") \/ Trim(body.requesterEmail) = <<>> THEN 3
  ELSE 0

\* which validation of createBookRequest rejects the body: 0 if none
createValidation(body) ==
  IF ~Truthy(body, "title") \/ Trim(body.title) = <<>> THEN 1
  ELSE IF ~Truthy(body, "author") \/ Trim(body.author) = <<>> THEN 2
  ELSE IF ~Truthy(body, "requesterEmail") \/ Trim(body.requesterEmail) = <<>> THEN 3
  ELSE IF ~emailRegexTest(body.requesterEmail) THEN 4
  ELSE 0

\* newBookRequest storing the e-mail as typed, without toLowerCase()
newBookRequestAsTyped(body) ==
  [exists |-> TRUE,
   title |-> Trim(body.title),
   requesterEmail |-> Trim(body.requesterEmail),
   requestedBy |-> <<>>,
   requestedByUid |-> <<>>,
   status |-> "pending",
   adminNotes |-> <<>>,
   upvotes |-> 0,
   respondedBy |-> <<>>,
   respondedAt |-> 0]

\* new BookRequest({...}) of createBookRequest
newBookRequest(body) ==
  [exists |-> TRUE,
   title |-> Trim(body.title),
   requesterEmail |-> Trim(ToLowerCase(body.requesterEmail)),
   requestedBy |-> <<>>,
   requestedByUid |-> <<>>,
   status |-> "pending",
   adminNotes |-> <<>>,
   upvotes |-> 0,
   respondedBy |-> <<>>,
   respondedAt |-> 0]

createBookRequest(caller, body) ==
  /\ IF createValidation(body) # 0
     THEN /\ last' = Answer("createBookRequest", 400, caller, 0)
          /\ UNCHANGED requests
     ELSE /\ requests' = Append(requests, newBookRequest(body))
          /\ last' = Answer("createBookRequest", 201, caller, NextReqNo)
  /\ UNCHANGED <<adminEnv, openai, ui, books, now, inflight, input, okCalls, reply>>

\* approveFields that always assigns adminNotes
approveFieldsNotesAlways(doc, email, body) ==
  [doc EXCEPT !.status = "approved",
              !.respondedBy = email,
              !.respondedAt = now,
              !.adminNotes = IF Truthy(body, "adminNotes")
                             THEN Trim(body.adminNotes) ELSE <<>>]

\* the fields approveBookRequest assigns before request.save()
approveFields(doc, email, body) ==
  [doc EXCEPT !.status = "approved",
              !.respondedBy = email,
              !.respondedAt = now,
              !.adminNotes = IF Truthy(body, "adminNotes")
                             THEN Trim(body.adminNotes) ELSE @]

\* the fields rejectBookRequest assigns before request.save()
rejectFields(doc, email, body) ==
  [doc EXCEPT !.status = "rejected",
              !.respondedBy = email,
              !.respondedAt = now,
              !.adminNotes = Trim(body.adminNotes)]

\* the fields markRequestFulfilled assigns before request.save()
fulfilFields(doc) == [doc EXCEPT !.status = "fulfilled"]

\* approveBookRequest that refuses a request that is not pending
approveOnlyPending(caller, id, body) ==
  IF ~NotAdmin(adminEnv, caller) /\ FindRequest(id) # 0
     /\ requests[FindRequest(id)].status # "pending"
  THEN /\ last' = Answer("approve", 400, caller, 0)
       /\ UNCHANGED requests
  ELSE /\ requests' = [requests EXCEPT ![FindRequest(id)] =
                         approveFields(@, caller.email, body)]
       /\ last' = Answer("approve", 200, caller, FindRequest(id))

\* approveBookRequest: the answer and the write
approveBookRequestAnswer(caller, id, body) ==
  /\ IF NotAdmin(adminEnv, caller)
     THEN /\ last' = Answer("approve", 403, caller, 0)
          /\ UNCHANGED requests
     ELSE IF ~isObjectIdString(id)
     THEN /\ last' = Answer("approve", 400, caller, 0)
          /\ UNCHANGED requests
     ELSE IF FindRequest(id) = 0
     THEN /\ last' = Answer("approve", 404, caller, 0)
          /\ UNCHANGED requests
     ELSE /\ requests' = [requests EXCEPT ![FindRequest(id)] =
                            approveFields(@, caller.email, body)]
          /\ last' = Answer("approve", 200, caller, FindRequest(id))

approveBookRequest(caller, id, body) ==
  /\ approveBookRequestAnswer(caller, id, body)
  /\ UNCHANGED <<adminEnv, openai, ui, books, now, inflight, input, okCalls, reply>>

\* rejectBookRequest: the answer and the write
rejectBookRequestAnswer(caller, id, body) ==
  /\ IF NotAdmin(adminEnv, caller)
     THEN /\ last' = Answer("reject", 403, caller, 0)
          /\ UNCHANGED requests
     ELSE IF ~isObjectIdString(id)
     THEN /\ last' = Answer("reject", 400, caller, 0)
          /\ UNCHANGED requests
     ELSE IF ~Truthy(body, "adminNotes") \/ Trim(body.adminNotes) = <<>>
     THEN /\ last' = Answer("reject", 400, caller, 0)
          /\ UNCHANGED requests
     ELSE IF FindRequest(id) = 0
     THEN /\ last' = Answer("reject", 404, caller, 0)
          /\ UNCHANGED requests
     ELSE /\ requests' = [requests EXCEPT ![FindRequest(id)] =
                            rejectFields(@, caller.email, body)]
          /\ last' = Answer("reject", 200, caller, FindRequest(id))

rejectBookRequest(caller, id, body) ==
  /\ rejectBookRequestAnswer(caller, id, body)
  /\ UNCHANGED <<adminEnv, openai, ui, books, now, inflight, input, okCalls, reply>>

\* markRequestFulfilled: the answer and the write
markRequestFulfilledAnswer(caller, id) ==
  /\ IF NotAdmin(adminEnv, caller)
     THEN /\ last' = Answer("fulfil", 403, caller, 0)
          /\ UNCHANGED requests
     ELSE IF ~isObjectIdString(id)
     THEN /\ last' = Answer("fulfil", 400, caller, 0)
          /\ UNCHANGED requests
     ELSE IF FindRequest(id) = 0
     THEN /\ last' = Answer("fulfil", 404, caller, 0)
          /\ UNCHANGED requests
     ELSE /\ requests' = [requests EXCEPT ![FindRequest(id)] = fulfilFields(@)]
          /\ last' = Answer("fulfil", 200, caller, FindRequest(id))

markRequestFulfilled(caller, id) ==
  /\ markRequestFulfilledAnswer(caller, id)
  /\ UNCHANGED <<adminEnv, openai, ui, books, now, inflight, input, okCalls, reply>>

\* { $inc: { upvotes: 1 } }
incUpvotes(doc) == [doc EXCEPT !.upvotes = @ + 1]

\* upvoteRequest: the answer and the write
upvoteRequestAnswer(caller, id) ==
  /\ IF ~isObjectIdString(id)
     THEN /\ last' = Answer("upvote", 400, caller, 0)
          /\ UNCHANGED requests
     ELSE IF FindRequest(id) = 0
     THEN /\ last' = Answer("upvote", 404, caller, 0)
          /\ UNCHANGED requests
     ELSE /\ requests' = [requests EXCEPT ![FindRequest(id)] = incUpvotes(@)]
          /\ last' = Answer("upvote", 200, caller, FindRequest(id))
  /\ okCalls' = IF last'.code = 200
                THEN [okCalls EXCEPT !.upvotes[last'.doc] = @ + 1] ELSE okCalls

upvoteRequest(caller, id) ==
  /\ upvoteRequestAnswer(caller, id)
  /\ UNCHANGED <<adminEnv, openai, ui, books, now, inflight, input, reply>>

\* getUserRequests: the documents whose requesterEmail is the token's e-mail
\* in lower case, newest first, one page of them
RECURSIVE NewestFirst(_, _)
NewestFirst(n, matching) ==
  IF n = 0 THEN <<>>
  ELSE IF n \in matching THEN <<n>> \o NewestFirst(n - 1, matching)
       ELSE NewestFirst(n - 1, matching)

Page(list, pageNum, limitNum) ==
  SubSeq(list, (pageNum - 1) * limitNum + 1,
         IF pageNum * limitNum < Len(list) THEN pageNum * limitNum ELSE Len(list))

getUserRequests(caller, pageNum, limitNum) ==
  LET mine == { n \in DOMAIN requests :
                  /\ requests[n].exists
                  /\ requests[n].requesterEmail = ToLowerCase(caller.email) }
  IN  Page(NewestFirst(Len(requests), mine), pageNum, limitNum)

(***************************************************************************)
(* routes/bookRequestRoutes.js (/api/book-requests): no authentication      *)
(* middleware; documents are validated by the BookRequest schema            *)
(***************************************************************************)
Uid1 == <<"u", "1">>

\* bodies of POST /api/book-requests: bookName, requestedBy, requestedByUid
\* and status are optional
RoutePostBodies ==
  { [bookName |-> <<"t">>, requestedBy |-> UserMailUpper, requestedByUid |-> Uid1],
    [bookName |-> <<"t">>, requestedBy |-> UserMail, requestedByUid |-> Uid1,
     status |-> "pending"],
    [bookName |-> <<"t">>, requestedBy |-> UserMail, requestedByUid |-> Uid1,
     status |-> "approved"],
    [bookName |-> <<"t">>, requestedBy |-> UserMail, requestedByUid |-> Uid1,
     status |-> "bogus"],
    [bookName |-> <<"t">>, requestedBy |-> UserMail],
    [requestedBy |-> UserMail, requestedByUid |-> Uid1] }

\* schema validation: required paths and the enum of status
schemaValid(body) ==
  /\ Truthy(body, "bookName")
  /\ Truthy(body, "requestedBy")
  /\ Truthy(body, "requestedByUid")
  /\ Has(body, "status") => enumValidator(body.status)

\* new BookRequest(req.body): the schema default of status is 'pending'
routeNewRequest(body) ==
  [exists |-> TRUE,
   title |-> body.bookName,
   requesterEmail |-> <<>>,
   requestedBy |-> body.requestedBy,
   requestedByUid |-> body.requestedByUid,
   status |-> IF Has(body, "status") THEN body.status ELSE "pending",
   adminNotes |-> <<>>,
   upvotes |-> 0,
   respondedBy |-> <<>>,
   respondedAt |-> 0]

routePost(caller, body) ==
  /\ IF ~schemaValid(body)
     THEN /\ last' = Answer("routePost", 400, caller, 0)
          /\ UNCHANGED requests
     ELSE /\ requests' = Append(requests, routeNewRequest(body))
          /\ last' = Answer("routePost", 201, caller, NextReqNo)
  /\ UNCHANGED <<adminEnv, openai, ui, books, now, inflight, input, okCalls, reply>>

\* status values a body can carry: the enum of the schema, null and two
\* strings outside the enum
BodyStatusInputs == StatusEnum \cup {Null, "fulfilled", "bogus"}

\* bodies of PUT /:id and PATCH /:id/status: status and adminNotes optional
UpdateBodies ==
  { <<>>, [adminNotes |-> Note1] }
  \cup { [status |-> st] : st \in BodyStatusInputs }
  \cup { [status |-> st, adminNotes |-> n] :
           st \in StatusEnum, n \in { <<>>, Note1 } }

\* findByIdAndUpdate(id, { ...req.body, updatedAt }): the paths of the body
routePutFields(doc, body) ==
  [doc EXCEPT !.status = IF Has(body, "status") THEN body.status ELSE @,
              !.adminNotes = IF Has(body, "adminNotes") THEN body.adminNotes ELSE @]

routePut(caller, id, body) ==
  /\ IF ~isObjectIdString(id) \/ (Has(body, "status") /\ ~enumValidator(body.status))
     THEN /\ last' = Answer("routePut", 400, caller, 0)
          /\ UNCHANGED requests
     ELSE IF FindRequest(id) = 0
     THEN /\ last' = Answer("routePut", 404, caller, 0)
          /\ UNCHANGED requests
     ELSE /\ requests' = [requests EXCEPT ![FindRequest(id)] = routePutFields(@, body)]
          /\ last' = Answer("routePut", 200, caller, FindRequest(id))
  /\ UNCHANGED <<adminEnv, openai, ui, books, now, inflight, input, okCalls, reply>>

\* findByIdAndUpdate(id, { status, adminNotes, updatedAt }): a body without
\* adminNotes passes undefined, which the driver either drops (keepNotes) or
\* stores as null
routePatchFields(doc, body, keepNotes) ==
  [doc EXCEPT !.status = body.status,
              !.adminNotes = IF Has(body, "adminNotes") THEN body.adminNotes
                             ELSE IF keepNotes THEN @ ELSE <<>>]

routePatchStatus(caller, id, body) ==
  /\ Has(body, "status")
  /\ IF ~isObjectIdString(id) \/ ~enumValidator(body.status)
     THEN /\ last' = Answer("routePatch", 400, caller, 0)
          /\ UNCHANGED requests
     ELSE IF FindRequest(id) = 0
     THEN /\ last' = Answer("routePatch", 404, caller, 0)
          /\ UNCHANGED requests
     ELSE /\ \E keepNotes \in BOOLEAN :
               requests' = [requests EXCEPT ![FindRequest(id)] =
                              routePatchFields(@, body, keepNotes)]
          /\ last' = Answer("routePatch", 200, caller, FindRequest(id))
  /\ UNCHANGED <<adminEnv, openai, ui, books, now, inflight, input, okCalls, reply>>

routeDelete(caller, id) ==
  /\ IF ~isObjectIdString(id)
     THEN /\ last' = Answer("routeDelete", 500, caller, 0)
          /\ UNCHANGED requests
     ELSE IF FindRequest(id) = 0
     THEN /\ last' = Answer("routeDelete", 404, caller, 0)
          /\ UNCHANGED requests
     ELSE /\ requests' = [requests EXCEPT ![FindRequest(id)] = GoneRequest]
          /\ last' = Answer("routeDelete", 200, caller, FindRequest(id))
  /\ UNCHANGED <<adminEnv, openai, ui, books, now, inflight, input, okCalls, reply>>

\* GET /user/:uid: the documents whose requestedByUid is uid, newest first
routeGetUser(uid) ==
  NewestFirst(Len(requests),
              { n \in DOMAIN requests :
                  requests[n].exists /\ requests[n].requestedByUid = uid })

(***************************************************************************)
(* pages/Admin.jsx: the request table of the dashboard.  Each button sends  *)
(* PATCH /api/book-requests/:id/status with adminNotes '' and no token.     *)
(***************************************************************************)
updateRequestStatus(n, status) ==
  routePatchStatus(Anonymous, ObjectId(n), [status |-> status, adminNotes |-> <<>>])

\* the Approve button shown for every request
dashboardApproveAlways(n) ==
  /\ requests[n].exists
  /\ updateRequestStatus(n, "approved")

dashboardApprove(n) ==
  /\ requests[n].exists /\ requests[n].status = "pending"
  /\ updateRequestStatus(n, "approved")

dashboardReject(n) ==
  /\ requests[n].exists /\ requests[n].status = "pending"
  /\ updateRequestStatus(n, "rejected")

dashboardReset(n) ==
  /\ requests[n].exists /\ requests[n].status # "pending"
  /\ updateRequestStatus(n, "pending")

\* the clock moves between calls
Tick ==
  /\ now < MaxTime
  /\ now' = now + 1
  /\ UNCHANGED <<adminEnv, openai, ui, requests, books, last, inflight, input, okCalls, reply>>

(***************************************************************************)
(* bookController.js (/api/books ...): the routes mount the handlers with   *)
(* no middleware, each handler tests req.user itself                        *)
(***************************************************************************)
Isbn1 == <<"1">>
Isbn2 == <<"2">>

GoneBook ==
  [exists |-> FALSE, name |-> <<>>, ISBN |-> <<>>, copies |-> 0,
   availability |-> FALSE, views |-> 0, downloads |-> 0, createdAt |-> 0,
   rating |-> 0, reviewCount |-> 0]

\* what the Book schema gives a new document for the paths createBook leaves out
DefaultCopies == 1
DefaultAvailability == TRUE
DefaultRating == 0
DefaultReviewCount == 0

BookIdParams == { ObjectId(n) : n \in 1..MaxBooks } \cup {UnknownId, MalformedId}

FindBook(id) ==
  IF \E n \in DOMAIN books : books[n].exists /\ ObjectId(n) = id
  THEN CHOOSE n \in DOMAIN books : books[n].exists /\ ObjectId(n) = id
  ELSE 0

\* Book.findOne({ ISBN }): the query uses the ISBN as the body carries it
FindIsbn(isbn) == \E n \in DOMAIN books : books[n].exists /\ books[n].ISBN = isbn

\* the unique index on ISBN of the Book schema: storing a document whose ISBN
\* a stored book has fails with the duplicate key error, code 11000
duplicateKey(stored, isbn) ==
  \E n \in DOMAIN stored : stored[n].exists /\ stored[n].ISBN = isbn

\* bodies of POST /api/books: name and ISBN optional, the other required
\* fields (author, image_link, amazon_link) either all given or all missing
BookBodies ==
  { [name |-> <<"t">>, ISBN |-> Isbn1, links |-> <<"o">>],
    [name |-> <<" ", "t">>, ISBN |-> Isbn2, links |-> <<"o">>],
    [name |-> <<"t">>, ISBN |-> <<" ">> \o Isbn1, links |-> <<"o">>],
    [name |-> <<" ">>, ISBN |-> Isbn1, links |-> <<"o">>],
    [name |-> <<"t">>, links |-> <<"o">>],
    [name |-> <<"t">>, ISBN |-> Isbn2] }

\* the required-field tests of createBook: TRUE when one of them answers 400
createBookInvalid(body) ==
  \/ ~Truthy(body, "name") \/ Trim(body.name) = <<>>
  \/ ~Truthy(body, "links") \/ Trim(body.links) = <<>>
  \/ ~Truthy(body, "ISBN") \/ Trim(body.ISBN) = <<>>

newBook(body) ==
  [exists |-> TRUE, name |-> Trim(body.name), ISBN |-> Trim(body.ISBN),
   copies |-> DefaultCopies, availability |-> DefaultAvailability,
   views |-> 0, downloads |-> 0, createdAt |-> now,
   rating |-> DefaultRating, reviewCount |-> DefaultReviewCount]

createBook(caller, body) ==
  /\ Len(books) < MaxBooks
  /\ IF NotAdmin(adminEnv, caller)
     THEN /\ last' = Answer("createBook", 403, caller, 0)
          /\ UNCHANGED books
     ELSE IF createBookInvalid(body)
     THEN /\ last' = Answer("createBook", 400, caller, 0)
          /\ UNCHANGED books
     ELSE IF FindIsbn(body.ISBN)
     THEN /\ last' = Answer("createBook", 409, caller, 0)
          /\ UNCHANGED books
     ELSE IF duplicateKey(books, newBook(body).ISBN)
     THEN /\ last' = Answer("createBook", 409, caller, 0)
          /\ UNCHANGED books
     ELSE /\ books' = Append(books, newBook(body))
          /\ last' = Answer("createBook", 201, caller, Len(books) + 1)
  /\ UNCHANGED <<adminEnv, openai, ui, requests, now, inflight, input, okCalls, reply>>

\* bodies of PUT and PATCH /api/books/:id
BookUpdateBodies ==
  { <<>>,
    [name |-> <<" ", "n">>],
    [copies |-> 0],
    [copies |-> 2],
    [availability |-> FALSE],
    [unlisted |-> <<"n">>] }

\* updateBook: trims the strings, derives availability when copies is given
updateBookFields(doc, body) ==
  [doc EXCEPT !.name = IF Truthy(body, "name") THEN Trim(body.name)
                       ELSE IF Has(body, "name") THEN body.name ELSE @,
              !.copies = IF Has(body, "copies") THEN body.copies ELSE @,
              !.availability = IF Has(body, "copies") THEN body.copies > 0
                               ELSE IF Has(body, "availability")
                                    THEN body.availability ELSE @]

updateBook(caller, id, body) ==
  /\ IF NotAdmin(adminEnv, caller)
     THEN /\ last' = Answer("updateBook", 403, caller, 0)
          /\ UNCHANGED books
     ELSE IF ~isObjectIdString(id)
     THEN /\ last' = Answer("updateBook", 400, caller, 0)
          /\ UNCHANGED books
     ELSE IF FindBook(id) = 0
     THEN /\ last' = Answer("updateBook", 404, caller, 0)
          /\ UNCHANGED books
     ELSE /\ books' = [books EXCEPT ![FindBook(id)] = updateBookFields(@, body)]
          /\ last' = Answer("updateBook", 200, caller, FindBook(id))
  /\ UNCHANGED <<adminEnv, openai, ui, requests, now, inflight, input, okCalls, reply>>

\* the allow-list of patchBook, restricted to the paths of the model
allowedFields ==
  {"name", "ISBN", "availability", "copies", "downloads", "views", "rating",
   "reviewCount"}

\* patchBookFields with every path of the body, as { $set: updateData }
patchBookFieldsWholeBody(doc, body) ==
  [f \in DOMAIN doc |->
     IF Has(body, f)
     THEN IF f = "name" /\ Truthy(body, "name") THEN Trim(body.name) ELSE body[f]
     ELSE doc[f]]

\* { $set: updates }: the allow-listed paths of the body, name trimmed
patchBookFields(doc, body) ==
  [f \in DOMAIN doc |->
     IF f \in allowedFields /\ Has(body, f)
     THEN IF f = "name" /\ Truthy(body, "name") THEN Trim(body.name) ELSE body[f]
     ELSE doc[f]]

\* patchBook: the answer and the write
patchBookAnswer(caller, id, body) ==
  IF NotAdmin(adminEnv, caller)
  THEN /\ last' = Answer("patchBook", 403, caller, 0)
       /\ UNCHANGED books
  ELSE IF ~isObjectIdString(id)
  THEN /\ last' = Answer("patchBook", 400, caller, 0)
       /\ UNCHANGED books
  ELSE IF DOMAIN body \cap allowedFields = {}
  THEN /\ last' = Answer("patchBook", 400, caller, 0)
       /\ UNCHANGED books
  ELSE IF FindBook(id) = 0
  THEN /\ last' = Answer("patchBook", 404, caller, 0)
       /\ UNCHANGED books
  ELSE IF Has(body, "ISBN") /\ body.ISBN # books[FindBook(id)].ISBN
          /\ duplicateKey(books, body.ISBN)
  THEN /\ last' = Answer("patchBook", 409, caller, 0)
       /\ UNCHANGED books
  ELSE /\ books' = [books EXCEPT ![FindBook(id)] = patchBookFields(@, body)]
       /\ last' = Answer("patchBook", 200, caller, FindBook(id))

patchBook(caller, id, body) ==
  /\ patchBookAnswer(caller, id, body)
  /\ UNCHANGED <<adminEnv, openai, ui, requests, now, inflight, input, okCalls, reply>>

deleteBook(caller, id) ==
  /\ IF NotAdmin(adminEnv, caller)
     THEN /\ last' = Answer("deleteBook", 403, caller, 0)
          /\ UNCHANGED books
     ELSE IF ~isObjectIdString(id)
     THEN /\ last' = Answer("deleteBook", 400, caller, 0)
          /\ UNCHANGED books
     ELSE IF FindBook(id) = 0
     THEN /\ last' = Answer("deleteBook", 404, caller, 0)
          /\ UNCHANGED books
     ELSE /\ books' = [books EXCEPT ![FindBook(id)] = GoneBook]
          /\ last' = Answer("deleteBook", 200, caller, FindBook(id))
  /\ UNCHANGED <<adminEnv, openai, ui, requests, now, inflight, input, okCalls, reply>>

\* the ids arrays of DELETE /api/books; <<>> stands for a missing or empty one
IdArrays ==
  { <<>>, <<ObjectId(1)>>, <<ObjectId(1), ObjectId(2)>>, <<ObjectId(1), MalformedId>>,
    <<UnknownId>> }

\* Book.deleteMany({ _id: { $in: ids } })
deleteMany(ids) ==
  [n \in DOMAIN books |->
     IF \E i \in 1..Len(ids) : ids[i] = ObjectId(n) THEN GoneBook ELSE books[n]]

deleteMultipleBooks(caller, ids) ==
  /\ IF NotAdmin(adminEnv, caller)
     THEN /\ last' = Answer("deleteMultipleBooks", 403, caller, 0)
          /\ UNCHANGED books
     ELSE IF ids = <<>> \/ \E i \in 1..Len(ids) : ~isObjectIdString(ids[i])
     THEN /\ last' = Answer("deleteMultipleBooks", 400, caller, 0)
          /\ UNCHANGED books
     ELSE /\ books' = deleteMany(ids)
          /\ last' = Answer("deleteMultipleBooks", 200, caller, 0)
  /\ UNCHANGED <<adminEnv, openai, ui, requests, now, inflight, input, okCalls, reply>>

\* the books arrays of POST /api/bulk-import; <<>> is a missing or empty one
ImportArrays ==
  { <<>>,
    <<[name |-> <<"t">>, ISBN |-> Isbn2, links |-> <<"o">>]>>,
    <<[name |-> <<"t">>, ISBN |-> Isbn1, links |-> <<"o">>], [name |-> <<"t">>]>> }

\* a document insertMany stores: the body as it is, with the schema defaults
importedBook(body) ==
  [exists |-> TRUE, name |-> body.name, ISBN |-> body.ISBN,
   copies |-> DefaultCopies, availability |-> DefaultAvailability,
   views |-> 0, downloads |-> 0, createdAt |-> now,
   rating |-> DefaultRating, reviewCount |-> DefaultReviewCount]

\* insertMany(books, { ordered: false }): the valid documents are inserted,
\* the others (a required path missing, a duplicate ISBN) skipped
RECURSIVE insertMany(_, _)
insertMany(stored, arr) ==
  IF arr = <<>> THEN stored
  ELSE IF Truthy(Head(arr), "name") /\ Truthy(Head(arr), "ISBN")
          /\ Truthy(Head(arr), "links") /\ Len(stored) < MaxBooks
          /\ ~duplicateKey(stored, Head(arr).ISBN)
       THEN insertMany(Append(stored, importedBook(Head(arr))), Tail(arr))
       ELSE insertMany(stored, Tail(arr))

\* bulkImportBooks has no admin test
bulkImportBooks(caller, arr) ==
  /\ IF arr = <<>>
     THEN /\ last' = Answer("bulkImportBooks", 400, caller, 0)
          /\ UNCHANGED books
     ELSE /\ books' = insertMany(books, arr)
          /\ last' = Answer("bulkImportBooks", 201, caller, 0)
  /\ UNCHANGED <<adminEnv, openai, ui, requests, now, inflight, input, okCalls, reply>>

\* { $inc: { downloads: 1 } }
incDownloads(doc) == [doc EXCEPT !.downloads = @ + 1]

incrementDownloads(caller, id) ==
  /\ IF ~isObjectIdString(id)
     THEN /\ last' = Answer("incrementDownloads", 500, caller, 0)
          /\ UNCHANGED books
     ELSE IF FindBook(id) = 0
     THEN /\ last' = Answer("incrementDownloads", 404, caller, 0)
          /\ UNCHANGED books
     ELSE /\ books' = [books EXCEPT ![FindBook(id)] = incDownloads(@)]
          /\ last' = Answer("incrementDownloads", 200, caller, FindBook(id))
  /\ okCalls' = IF last'.code = 200
                THEN [okCalls EXCEPT !.downloads[last'.doc] = @ + 1] ELSE okCalls
  /\ UNCHANGED <<adminEnv, openai, ui, requests, now, inflight, input, reply>>

(***************************************************************************)
(* The request sub-APIs, one call at a time                                 *)
(***************************************************************************)
NoBooks == <<>>
NoInflight == <<>>
NoInput == <<>>
\* per document number: the calls answered 200 so far
DocSlots == 1..(MaxReq + MaxDocs + MaxBooks)
NoCalls == [upvotes |-> [n \in DocSlots |-> 0],
            views |-> [n \in DocSlots |-> 0],
            downloads |-> [n \in DocSlots |-> 0]]

InitReq ==
  /\ adminEnv = ServerAdminEnv
  /\ requests = <<>>
  /\ books = NoBooks
  /\ now = 1
  /\ last = NoCall
  /\ inflight = NoInflight
  /\ input = NoInput
  /\ okCalls = NoCalls
  /\ reply = NoReply
  /\ openai = NoClient
  /\ ui = NoUi

NextReq ==
  \/ \E c \in Callers, b \in LifecycleBodies :
       Len(requests) < MaxReq /\ createBookRequest(c, b)
  \/ \E c \in Callers, id \in ReqIdParams, b \in NotesBodies :
       approveBookRequest(c, id, b)
  \/ \E c \in Callers, id \in ReqIdParams, b \in NotesBodies :
       rejectBookRequest(c, id, b)
  \/ \E c \in Callers, id \in ReqIdParams : markRequestFulfilled(c, id)
  \/ \E c \in Callers, b \in RoutePostBodies :
       Len(requests) < MaxReq /\ routePost(c, b)
  \/ \E c \in Callers, id \in ReqIdParams, b \in UpdateBodies : routePut(c, id, b)
  \/ \E c \in Callers, id \in ReqIdParams, b \in UpdateBodies : routePatchStatus(c, id, b)
  \/ \E c \in Callers, id \in ReqIdParams : routeDelete(c, id)
  \/ \E n \in DOMAIN requests : dashboardApprove(n)
  \/ \E n \in DOMAIN requests : dashboardReject(n)
  \/ \E n \in DOMAIN requests : dashboardReset(n)
  \/ Tick

SpecReq == InitReq /\ [][NextReq]_vars

(***************************************************************************)
(* The book endpoints, one call at a time                                   *)
(***************************************************************************)
InitBook ==
  /\ adminEnv = ServerAdminEnv
  /\ requests = <<>>
  /\ books = NoBooks
  /\ now = 1
  /\ last = NoCall
  /\ inflight = NoInflight
  /\ input = NoInput
  /\ okCalls = NoCalls
  /\ reply = NoReply
  /\ openai = NoClient
  /\ ui = NoUi

NextBook ==
  \/ \E c \in Callers, b \in BookBodies : createBook(c, b)
  \/ \E c \in Callers, id \in BookIdParams, b \in BookUpdateBodies : updateBook(c, id, b)
  \/ \E c \in Callers, id \in BookIdParams, b \in BookUpdateBodies : patchBook(c, id, b)
  \/ \E c \in Callers, id \in BookIdParams : deleteBook(c, id)
  \/ \E c \in Callers, ids \in IdArrays : deleteMultipleBooks(c, ids)
  \/ \E c \in Callers, arr \in ImportArrays : bulkImportBooks(c, arr)

SpecBook == InitBook /\ [][NextBook]_vars


(***************************************************************************)
(* createBookRequest on every body over a small alphabet                    *)
(***************************************************************************)
EmailAlphabet == {"u", "@", ".", "-", " "}

StringsUpTo(A, n) == UNION { [1..k -> A] : k \in 0..n }

\* title and author of a body: present, blank, empty or absent
TitleAuthorBodies ==
  { [title |-> <<" ", "t">>, author |-> <<"o">>],
    [title |-> <<" ">>, author |-> <<"o">>],
    [title |-> <<>>, author |-> <<"o">>],
    [author |-> <<"o">>],
    [title |-> <<" ", "t">>, author |-> <<" ">>],
    [title |-> <<" ", "t">>] }

WithEmail(b, e) ==
  [f \in DOMAIN b \cup {"requesterEmail"} |->
     IF f = "requesterEmail" THEN e ELSE b[f]]

\* the body is any of TitleAuthorBodies, without an e-mail or with any string
\* over EmailAlphabet up to MaxEmailLen characters as e-mail
InitCreate ==
  /\ adminEnv = ServerAdminEnv
  /\ requests = <<>>
  /\ books = NoBooks
  /\ now = 1
  /\ last = NoCall
  /\ inflight = NoInflight
  /\ \E b \in TitleAuthorBodies :
       \/ input = b
       \/ \E e \in StringsUpTo(EmailAlphabet, MaxEmailLen) : input = WithEmail(b, e)
  /\ okCalls = NoCalls
  /\ reply = NoReply
  /\ openai = NoClient
  /\ ui = NoUi

submitRequest == Len(requests) < MaxReq /\ createBookRequest(Anonymous, input)

NextCreate == submitRequest

SpecCreate == InitCreate /\ [][NextCreate]_vars

(***************************************************************************)
(* Requests of both sub-APIs answered by the admin through the controller   *)
(***************************************************************************)
DocIdParams == { ObjectId(n) : n \in 1..MaxDocs } \cup {UnknownId}

AnswerBodies == { <<>>, [adminNotes |-> <<" ", "n", " ">>] }

NextApprove ==
  \/ \E b \in { [title |-> <<"t">>, author |-> <<"o">>, requesterEmail |-> UserMailUpper] } :
       Len(requests) < MaxDocs /\ createBookRequest(Anonymous, b)
  \/ \E b \in { [bookName |-> <<"t">>, requestedBy |-> UserMail, requestedByUid |-> Uid1] } :
       Len(requests) < MaxDocs /\ routePost(Anonymous, b)
  \/ \E c \in {User, Admin}, id \in DocIdParams, b \in AnswerBodies :
       approveBookRequest(c, id, b)
  \/ \E id \in DocIdParams :
       rejectBookRequest(Admin, id, [adminNotes |-> <<" ", "n", " ">>])
  \/ Tick

SpecApprove == InitReq /\ [][NextApprove]_vars

(***************************************************************************)
(* Concurrent requests: a handler runs up to its await of a query and        *)
(* resumes later; findByIdAndUpdate is one operation of the database         *)
(***************************************************************************)
Procs == 1..NumProcs

Idle == [pc |-> "idle"]

\* document.save(): $set of the paths whose value the handler changed since
\* it read the document; the other paths keep what the collection holds
saveWholeDocument(stored, snap, local) == local

saveModified(stored, snap, local) ==
  [f \in DOMAIN stored |-> IF local[f] # snap[f] THEN local[f] ELSE stored[f]]

\* approveBookRequest up to `await BookRequest.findById(id)`
approveBegin(p, caller, id, body) ==
  /\ inflight[p].pc = "idle"
  /\ IF NotAdmin(adminEnv, caller)
     THEN /\ last' = Answer("approve", 403, caller, 0)
          /\ UNCHANGED inflight
     ELSE IF ~isObjectIdString(id)
     THEN /\ last' = Answer("approve", 400, caller, 0)
          /\ UNCHANGED inflight
     ELSE IF FindRequest(id) = 0
     THEN /\ last' = Answer("approve", 404, caller, 0)
          /\ UNCHANGED inflight
     ELSE /\ inflight' = [inflight EXCEPT ![p] =
                            [pc |-> "approve", doc |-> FindRequest(id),
                             snap |-> requests[FindRequest(id)],
                             caller |-> caller, body |-> body]]
          /\ UNCHANGED last
  /\ UNCHANGED <<adminEnv, openai, ui, requests, books, now, input, okCalls, reply>>

\* ... and from the assignments to the response
approveEnd(p) ==
  /\ inflight[p].pc = "approve"
  /\ requests' = [requests EXCEPT ![inflight[p].doc] =
                    saveModified(@, inflight[p].snap,
                                 approveFields(inflight[p].snap, inflight[p].caller.email,
                                               inflight[p].body))]
  /\ last' = Answer("approve", 200, inflight[p].caller, inflight[p].doc)
  /\ inflight' = [inflight EXCEPT ![p] = Idle]
  /\ UNCHANGED <<adminEnv, openai, ui, books, now, input, okCalls, reply>>

\* markRequestFulfilled up to `await BookRequest.findById(id)`
fulfilBegin(p, caller, id) ==
  /\ inflight[p].pc = "idle"
  /\ IF NotAdmin(adminEnv, caller)
     THEN /\ last' = Answer("fulfil", 403, caller, 0)
          /\ UNCHANGED inflight
     ELSE IF ~isObjectIdString(id)
     THEN /\ last' = Answer("fulfil", 400, caller, 0)
          /\ UNCHANGED inflight
     ELSE IF FindRequest(id) = 0
     THEN /\ last' = Answer("fulfil", 404, caller, 0)
          /\ UNCHANGED inflight
     ELSE /\ inflight' = [inflight EXCEPT ![p] =
                            [pc |-> "fulfil", doc |-> FindRequest(id),
                             snap |-> requests[FindRequest(id)],
                             caller |-> caller, body |-> <<>>]]
          /\ UNCHANGED last
  /\ UNCHANGED <<adminEnv, openai, ui, requests, books, now, input, okCalls, reply>>

fulfilEnd(p) ==
  /\ inflight[p].pc = "fulfil"
  /\ requests' = [requests EXCEPT ![inflight[p].doc] =
                    saveModified(@, inflight[p].snap, fulfilFields(inflight[p].snap))]
  /\ last' = Answer("fulfil", 200, inflight[p].caller, inflight[p].doc)
  /\ inflight' = [inflight EXCEPT ![p] = Idle]
  /\ UNCHANGED <<adminEnv, openai, ui, books, now, input, okCalls, reply>>

\* one request is stored
InitUpvote ==
  /\ adminEnv = ServerAdminEnv
  /\ requests =
       << newBookRequest([title |-> <<"t">>, author |-> <<"o">>,
                          requesterEmail |-> UserMail]) >>
  /\ books = NoBooks
  /\ now = 1
  /\ last = NoCall
  /\ inflight = [p \in Procs |-> Idle]
  /\ input = NoInput
  /\ okCalls = NoCalls
  /\ reply = NoReply
  /\ openai = NoClient
  /\ ui = NoUi

UpvoteIdParams == { ObjectId(1), UnknownId, MalformedId }

NextUpvote ==
  \/ \E c \in {Anonymous, User}, id \in UpvoteIdParams :
       /\ okCalls.upvotes[1] < MaxUpvotes
       /\ upvoteRequest(c, id)
  \/ \E p \in Procs, id \in UpvoteIdParams : approveBegin(p, Admin, id, <<>>)
  \/ \E p \in Procs : approveEnd(p)
  \/ \E p \in Procs : fulfilBegin(p, Admin, ObjectId(1))
  \/ \E p \in Procs : fulfilEnd(p)

SpecUpvote == InitUpvote /\ [][NextUpvote]_vars

\* getBookById up to `await Book.findById(id)`
getBookByIdBegin(p, caller, id) ==
  /\ inflight[p].pc = "idle"
  /\ IF ~isObjectIdString(id)
     THEN /\ last' = Answer("getBookById", 400, caller, 0)
          /\ UNCHANGED inflight
     ELSE IF FindBook(id) = 0
     THEN /\ last' = Answer("getBookById", 404, caller, 0)
          /\ UNCHANGED inflight
     ELSE /\ inflight' = [inflight EXCEPT ![p] =
                            [pc |-> "getBookById", doc |-> FindBook(id),
                             snap |-> books[FindBook(id)],
                             caller |-> caller, body |-> <<>>]]
          /\ UNCHANGED last
  /\ UNCHANGED <<adminEnv, openai, ui, requests, books, now, input, okCalls, reply>>

\* book.views = (book.views || 0) + 1
viewedBook(doc) == [doc EXCEPT !.views = @ + 1]

\* ... and `await book.save()` with the response
getBookByIdEnd(p) ==
  /\ inflight[p].pc = "getBookById"
  /\ books' = [books EXCEPT ![inflight[p].doc] =
                 saveModified(@, inflight[p].snap, viewedBook(inflight[p].snap))]
  /\ last' = Answer("getBookById", 200, inflight[p].caller, inflight[p].doc)
  /\ okCalls' = [okCalls EXCEPT !.views[inflight[p].doc] = @ + 1]
  /\ inflight' = [inflight EXCEPT ![p] = Idle]
  /\ UNCHANGED <<adminEnv, openai, ui, requests, now, input, reply>>

\* one book is stored
InitCounters ==
  /\ now = 1
  /\ adminEnv = ServerAdminEnv
  /\ requests = <<>>
  /\ books = << newBook([name |-> <<"t">>, ISBN |-> Isbn1, links |-> <<"o">>]) >>
  /\ last = NoCall
  /\ inflight = [p \in Procs |-> Idle]
  /\ input = NoInput
  /\ okCalls = NoCalls
  /\ reply = NoReply
  /\ openai = NoClient
  /\ ui = NoUi

CounterIdParams == { ObjectId(1), UnknownId, MalformedId }

CallsStarted ==
  okCalls.views[1] + Cardinality({ p \in Procs : inflight[p].pc = "getBookById" })

NextCounters ==
  \/ \E p \in Procs, c \in {Anonymous, User}, id \in CounterIdParams :
       CallsStarted < MaxViews /\ getBookByIdBegin(p, c, id)
  \/ \E p \in Procs : getBookByIdEnd(p)
  \/ \E c \in {Anonymous, User}, id \in CounterIdParams :
       okCalls.downloads[1] < MaxViews /\ incrementDownloads(c, id)

SpecCounters == InitCounters /\ [][NextCounters]_vars

(***************************************************************************)
(* JavaScript numbers of the pagination code: an integer or NaN              *)
(***************************************************************************)
Num(v) == [nan |-> FALSE, v |-> v]
NaN == [nan |-> TRUE, v |-> 0]

DecimalValue(c) ==
  CASE c = "0" -> 0 [] c = "1" -> 1 [] c = "2" -> 2 [] c = "3" -> 3
    [] c = "4" -> 4 [] c = "5" -> 5 [] c = "6" -> 6 [] c = "7" -> 7
    [] c = "8" -> 8 [] OTHER -> 9

\* the value of the decimal digits s starts with
RECURSIVE DigitsValue(_, _)
DigitsValue(s, acc) ==
  IF s = <<>> \/ Head(s) \notin Digits THEN acc
  ELSE DigitsValue(Tail(s), acc * 10 + DecimalValue(Head(s)))

\* parseInt(s) of a string: leading blanks and a sign are skipped, the digits
\* up to the first other character are the value, no digit gives NaN (the
\* strings of the model carry no 0x prefix)
parseInt(s) ==
  LET t == TrimStart(s)
      neg == t # <<>> /\ Head(t) = "-"
      u == IF t # <<>> /\ Head(t) \in {"-", "+"} THEN Tail(t) ELSE t
  IN  IF u = <<>> \/ Head(u) \notin Digits THEN NaN
      ELSE Num(IF neg THEN 0 - DigitsValue(u, 0) ELSE DigitsValue(u, 0))

\* const { f = dflt } = req.query; parseInt(f): the default is taken only for
\* a parameter the query does not carry
QueryInt(query, f, dflt) ==
  IF Has(query, f) THEN parseInt(query[f]) ELSE Num(dflt)

MathMax(a, b) ==
  IF a.nan \/ b.nan THEN NaN ELSE Num(IF a.v >= b.v THEN a.v ELSE b.v)

MathMin(a, b) ==
  IF a.nan \/ b.nan THEN NaN ELSE Num(IF a.v <= b.v THEN a.v ELSE b.v)

\* a < b of two numbers: false when one is NaN
LessThan(a, b) == ~a.nan /\ ~b.nan /\ a.v < b.v

\* Math.ceil(total / limitNum) for a limit of at least 1, NaN for a NaN limit
MathCeilDiv(total, l) ==
  IF l.nan THEN NaN ELSE Num((total + l.v - 1) \div l.v)

\* const pageNum = Math.max(1, parseInt(page))
pageNumOf(query) == MathMax(Num(1), QueryInt(query, "page", 1))

\* const limitNum = Math.min(100, Math.max(1, parseInt(limit)))
limitNumOf(query) == MathMin(Num(100), MathMax(Num(1), QueryInt(query, "limit", 10)))

\* const skip = (pageNum - 1) * limitNum
skipOf(query) ==
  IF pageNumOf(query).nan \/ limitNumOf(query).nan THEN NaN
  ELSE Num((pageNumOf(query).v - 1) * limitNumOf(query).v)


(***************************************************************************)
(* bookController.js / bookRequestController.js: the list endpoints          *)
(***************************************************************************)
Reverse(list) == [i \in 1..Len(list) |-> list[Len(list) + 1 - i]]

\* the documents a cursor returns for .limit(l).skip(k) of the sorted
\* matches: limit 0 is no limit, a negative limit returns that many documents
QueryPage(list, l, k) ==
  LET n == IF l < 0 THEN 0 - l ELSE l
      to == IF l = 0 \/ k + n > Len(list) THEN Len(list) ELSE k + n
  IN  SubSeq(list, k + 1, to)

\* pagination: { page, limit, total, pages, hasNext, hasPrev } of getAllBooks
\* and getBookRequests
paginationWithFlags(query, total) ==
  [page |-> pageNumOf(query),
   limit |-> limitNumOf(query),
   total |-> total,
   pages |-> MathCeilDiv(total, limitNumOf(query)),
   hasNext |-> LessThan(pageNumOf(query), MathCeilDiv(total, limitNumOf(query))),
   hasPrev |-> LessThan(Num(1), pageNumOf(query))]

\* pagination: { page, limit, total, pages } of getBooksByGenre
paginationPlain(query, total) ==
  [page |-> pageNumOf(query),
   limit |-> limitNumOf(query),
   total |-> total,
   pages |-> MathCeilDiv(total, limitNumOf(query))]

\* find(filter).limit(l).skip(k) and the answer.  A NaN passed to limit() or
\* skip() either makes the query throw (next(error), answered 500) or is
\* dropped by the driver, as the installed mongoose decides: nanThrows.
\* The reply records what the handler passed to the cursor (limit, skip).
answerList(op, caller, list, body, l, k, nanThrows) ==
  /\ IF (l.nan \/ k.nan) /\ nanThrows
     THEN /\ last' = Answer(op, 500, caller, 0)
          /\ reply' = [limit |-> l, skip |-> k]
     ELSE /\ last' = Answer(op, 200, caller, 0)
          /\ reply' = [f \in DOMAIN body \cup {"data", "limit", "skip"} |->
                         CASE f = "data" -> QueryPage(list, IF l.nan THEN 0 ELSE l.v,
                                                      IF k.nan THEN 0 ELSE k.v)
                           [] f = "limit" -> l
                           [] f = "skip" -> k
                           [] OTHER -> body[f]]
  /\ UNCHANGED <<adminEnv, openai, ui, requests, books, now, inflight, input, okCalls>>

StoredBooks == { n \in DOMAIN books : books[n].exists }
StoredRequests == { n \in DOMAIN requests : requests[n].exists }

\* getAllBooks without genre and search: every book, newest first
getAllBooks(caller, query, nanThrows) ==
  answerList("getAllBooks", caller, NewestFirst(Len(books), StoredBooks),
             [pagination |-> paginationWithFlags(query, Cardinality(StoredBooks))],
             limitNumOf(query), skipOf(query), nanThrows)

\* genre: genre || 'Other' of createBook: the genre of every book of the model
DefaultGenre == <<"O">>

GenreParams == { DefaultGenre, <<" ">>, <<"n">> }

\* getBooksByGenre: find({ genre }) sorted by rating, which no book of the
\* model has, so in storage order
getBooksByGenre(caller, genre, query, nanThrows) ==
  IF Trim(genre) = <<>>
  THEN /\ last' = Answer("getBooksByGenre", 400, caller, 0)
       /\ reply' = NoReply
       /\ UNCHANGED <<adminEnv, openai, ui, requests, books, now, inflight, input, okCalls>>
  ELSE LET matching == IF genre = DefaultGenre THEN StoredBooks ELSE {}
       IN  answerList("getBooksByGenre", caller,
                      Reverse(NewestFirst(Len(books), matching)),
                      [pagination |-> paginationPlain(query, Cardinality(matching))],
                      limitNumOf(query), skipOf(query), nanThrows)

\* { $regex: q, $options: 'i' } for a q without regex operators
RECURSIVE ContainsI(_, _)
ContainsI(s, q) ==
  IF Len(q) > Len(s) THEN FALSE
  ELSE IF ToLowerCase(SubSeq(s, 1, Len(q))) = ToLowerCase(q) THEN TRUE
  ELSE ContainsI(Tail(s), q)

\* searchBooks: .limit(parseInt(limit)) with the default 20, no skip
searchBooks(caller, query, nanThrows) ==
  IF ~Truthy(query, "q") \/ Trim(query.q) = <<>>
  THEN /\ last' = Answer("searchBooks", 400, caller, 0)
       /\ reply' = NoReply
       /\ UNCHANGED <<adminEnv, openai, ui, requests, books, now, inflight, input, okCalls>>
  ELSE LET matching == { n \in StoredBooks : ContainsI(books[n].name, query.q) }
           list == Reverse(NewestFirst(Len(books), matching))
           l == QueryInt(query, "limit", 20)
           shown == IF l.nan \/ l.v = 0 \/ Len(list) <= (IF l.v < 0 THEN 0 - l.v ELSE l.v)
                    THEN Len(list) ELSE (IF l.v < 0 THEN 0 - l.v ELSE l.v)
       IN  answerList("searchBooks", caller, list, [count |-> shown],
                      l, Num(0), nanThrows)

\* getBookRequests: admin only, optional status filter (a status the query
\* carries is not empty), newest first
getBookRequests(caller, query, nanThrows) ==
  IF NotAdmin(adminEnv, caller)
  THEN /\ last' = Answer("getBookRequests", 403, caller, 0)
       /\ reply' = NoReply
       /\ UNCHANGED <<adminEnv, openai, ui, requests, books, now, inflight, input, okCalls>>
  ELSE LET matching == { n \in StoredRequests :
                           Has(query, "status") => requests[n].status = query.status }
       IN  answerList("getBookRequests", caller,
                      NewestFirst(Len(requests), matching),
                      [pagination |-> paginationWithFlags(query, Cardinality(matching))],
                      limitNumOf(query), skipOf(query), nanThrows)


\* values of ?page= and ?limit=
PageInputs ==
  { <<"0">>, <<"1">>, <<"2">>, <<"3">>, <<"-", "1">>, <<"t">>, <<>>, <<" ", "2", "t">> }
LimitInputs ==
  { <<"0">>, <<"1">>, <<"2">>, <<"1", "0", "0">>, <<"1", "0", "1">>, <<"5", "0", "0">>,
    <<"-", "1">>, <<"t">>, <<>> }

\* the query strings: page and limit optional
ListQueries ==
  { <<>> }
  \cup { [page |-> pg] : pg \in PageInputs }
  \cup { [limit |-> lm] : lm \in LimitInputs }
  \cup { [page |-> pg, limit |-> lm] : pg \in PageInputs, lm \in LimitInputs }

WithParam(query, f, v) ==
  [g \in DOMAIN query \cup {f} |-> IF g = f THEN v ELSE query[g]]

SearchTerms == { <<"T">>, <<"n">>, <<" ">> }

\* MaxListed books and two requests are stored; the query is any of ListQueries
InitList ==
  /\ now = 1
  /\ adminEnv = ServerAdminEnv
  /\ requests = << newBookRequest([title |-> <<"t">>, author |-> <<"o">>,
                                   requesterEmail |-> UserMail]),
                   [newBookRequest([title |-> <<"t">>, author |-> <<"o">>,
                                    requesterEmail |-> UserMail])
                      EXCEPT !.status = "approved"] >>
  /\ books = [n \in 1..MaxListed |->
                newBook([name |-> <<"t">>, ISBN |-> <<DigitChar(n)>>, links |-> <<"o">>])]
  /\ last = NoCall
  /\ inflight = NoInflight
  /\ input \in ListQueries
  /\ okCalls = NoCalls
  /\ reply = NoReply
  /\ openai = NoClient
  /\ ui = NoUi

NextList ==
  \/ \E c \in {Anonymous, Admin}, nanThrows \in BOOLEAN : getAllBooks(c, input, nanThrows)
  \/ \E c \in {Anonymous, Admin}, g \in GenreParams, nanThrows \in BOOLEAN :
       getBooksByGenre(c, g, input, nanThrows)
  \/ \E c \in {Anonymous, Admin}, nanThrows \in BOOLEAN :
       \/ searchBooks(c, input, nanThrows)
       \/ \E q \in SearchTerms : searchBooks(c, WithParam(input, "q", q), nanThrows)
  \/ \E c \in {Anonymous, Admin}, nanThrows \in BOOLEAN :
       \/ getBookRequests(c, input, nanThrows)
       \/ \E st \in {"pending", "fulfilled"} :
            getBookRequests(c, WithParam(input, "status", st), nanThrows)

SpecList == InitList /\ [][NextList]_vars


(***************************************************************************)
(* createBook handled concurrently: Book.findOne({ ISBN }) and book.save()   *)
(* are two awaits                                                           *)
(***************************************************************************)
\* createBook up to `await Book.findOne({ ISBN })`; with an answer, input
\* keeps the req.body it answers
createBookBegin(p, caller, body) ==
  /\ inflight[p].pc = "idle"
  /\ IF NotAdmin(adminEnv, caller)
     THEN /\ last' = Answer("createBook", 403, caller, 0)
          /\ input' = body
          /\ UNCHANGED inflight
     ELSE IF createBookInvalid(body)
     THEN /\ last' = Answer("createBook", 400, caller, 0)
          /\ input' = body
          /\ UNCHANGED inflight
     ELSE IF FindIsbn(body.ISBN)
     THEN /\ last' = Answer("createBook", 409, caller, 0)
          /\ input' = body
          /\ UNCHANGED inflight
     ELSE /\ inflight' = [inflight EXCEPT ![p] =
                            [pc |-> "createBook", doc |-> 0, snap |-> newBook(body),
                             caller |-> caller, body |-> body]]
          /\ UNCHANGED <<last, input>>
  /\ UNCHANGED <<adminEnv, openai, ui, requests, books, now, okCalls, reply>>

\* createBookEnd without the test of error.code === 11000 in the catch
createBookEndNoCatch(p) ==
  /\ inflight[p].pc = "createBook"
  /\ IF duplicateKey(books, inflight[p].snap.ISBN)
     THEN /\ last' = Answer("createBook", 500, inflight[p].caller, 0)
          /\ UNCHANGED books
     ELSE /\ books' = Append(books, inflight[p].snap)
          /\ last' = Answer("createBook", 201, inflight[p].caller, Len(books) + 1)
  /\ input' = inflight[p].body
  /\ inflight' = [inflight EXCEPT ![p] = Idle]
  /\ UNCHANGED <<adminEnv, openai, ui, requests, now, okCalls, reply>>

\* ... new Book({...}), `await book.save()` and the response; a duplicate key
\* error of the save is caught and answered 409
createBookEnd(p) ==
  /\ inflight[p].pc = "createBook"
  /\ IF duplicateKey(books, inflight[p].snap.ISBN)
     THEN /\ last' = Answer("createBook", 409, inflight[p].caller, 0)
          /\ UNCHANGED books
     ELSE /\ books' = Append(books, inflight[p].snap)
          /\ last' = Answer("createBook", 201, inflight[p].caller, Len(books) + 1)
  /\ input' = inflight[p].body
  /\ inflight' = [inflight EXCEPT ![p] = Idle]
  /\ UNCHANGED <<adminEnv, openai, ui, requests, now, okCalls, reply>>

InitIsbn ==
  /\ adminEnv = ServerAdminEnv
  /\ requests = <<>>
  /\ books = NoBooks
  /\ now = 1
  /\ last = NoCall
  /\ inflight = [p \in Procs |-> Idle]
  /\ input = NoInput
  /\ okCalls = NoCalls
  /\ reply = NoReply
  /\ openai = NoClient
  /\ ui = NoUi

CreatesStarted ==
  Len(books) + Cardinality({ p \in Procs : inflight[p].pc = "createBook" })

NextIsbn ==
  \/ \E p \in Procs, c \in {User, Admin}, b \in BookBodies :
       CreatesStarted < MaxBooks /\ createBookBegin(p, c, b)
  \/ \E p \in Procs : createBookEnd(p)

SpecIsbn == InitIsbn /\ [][NextIsbn]_vars


(***************************************************************************)
(* patchBook on two stored books, for every body over the paths of the       *)
(* model and two paths outside the allow-list                                *)
(***************************************************************************)
PatchValues ==
  [name |-> <<" ", "n">>, ISBN |-> Isbn2, copies |-> 0, availability |-> FALSE,
   downloads |-> 2, views |-> 3, createdAt |-> 0, unlisted |-> <<"n">>]

PatchBodies ==
  { [f \in fs |-> PatchValues[f]] : fs \in SUBSET DOMAIN PatchValues }

InitPatch ==
  /\ now = 1
  /\ adminEnv = ServerAdminEnv
  /\ requests = <<>>
  /\ books = << newBook([name |-> <<"t">>, ISBN |-> Isbn1, links |-> <<"o">>]),
                newBook([name |-> <<"t">>, ISBN |-> Isbn2, links |-> <<"o">>]) >>
  /\ last = NoCall
  /\ inflight = NoInflight
  /\ input \in PatchBodies
  /\ okCalls = NoCalls
  /\ reply = NoReply
  /\ openai = NoClient
  /\ ui = NoUi

NextPatch ==
  \E c \in {User, Admin}, id \in BookIdParams : patchBook(c, id, input)

SpecPatch == InitPatch /\ [][NextPatch]_vars


(***************************************************************************)
(* adminAuth.js: attachAdminInfo and requireAdmin, for every configuration   *)
(* and e-mail over a small alphabet                                          *)
(***************************************************************************)
\* attachAdminInfo: sets req.isAdmin and req.adminEmail, then next()
attachAdminInfo(caller) ==
  /\ last' = Answer("attachAdminInfo", 0, caller, 0)
  /\ reply' = IF caller.auth /\ caller.email # <<>> /\ isAdminEmail(adminEnv, caller.email)
              THEN [isAdmin |-> TRUE, adminEmail |-> caller.email, next |-> TRUE]
              ELSE [isAdmin |-> FALSE, adminEmail |-> <<>>, next |-> TRUE]
  /\ UNCHANGED <<adminEnv, openai, ui, requests, books, now, inflight, input, okCalls>>

\* requireAdmin without the test of req.user.email
requireAdminNoEmailTest(p, caller) ==
  /\ inflight[p].pc = "idle"
  /\ IF ~caller.auth
     THEN /\ last' = Answer("requireAdmin", 401, caller, 0)
          /\ reply' = [next |-> FALSE]
          /\ UNCHANGED inflight
     ELSE IF ~isAdminEmail(adminEnv, caller.email)
     THEN /\ last' = Answer("requireAdmin", 403, caller, 0)
          /\ reply' = [next |-> FALSE]
          /\ UNCHANGED inflight
     ELSE /\ last' = Answer("requireAdmin", 0, caller, 0)
          /\ reply' = [next |-> TRUE]
          /\ inflight' = [inflight EXCEPT ![p] = [pc |-> "handler", caller |-> caller]]
  /\ UNCHANGED <<adminEnv, openai, ui, requests, books, now, input, okCalls>>

\* requireAdmin: 401 without req.user or req.user.email, 403 for an e-mail
\* that is no admin's, otherwise next(): the route's handler runs
requireAdmin(p, caller) ==
  /\ inflight[p].pc = "idle"
  /\ IF ~caller.auth
     THEN /\ last' = Answer("requireAdmin", 401, caller, 0)
          /\ reply' = [next |-> FALSE]
          /\ UNCHANGED inflight
     ELSE IF caller.email = <<>>
     THEN /\ last' = Answer("requireAdmin", 401, caller, 0)
          /\ reply' = [next |-> FALSE]
          /\ UNCHANGED inflight
     ELSE IF ~isAdminEmail(adminEnv, caller.email)
     THEN /\ last' = Answer("requireAdmin", 403, caller, 0)
          /\ reply' = [next |-> FALSE]
          /\ UNCHANGED inflight
     ELSE /\ last' = Answer("requireAdmin", 0, caller, 0)
          /\ reply' = [next |-> TRUE]
          /\ inflight' = [inflight EXCEPT ![p] = [pc |-> "handler", caller |-> caller]]
  /\ UNCHANGED <<adminEnv, openai, ui, requests, books, now, input, okCalls>>

\* the handler of a route mounted behind requireAdmin
guardedHandler(p) ==
  /\ inflight[p].pc = "handler"
  /\ last' = Answer("guardedHandler", 200, inflight[p].caller, 0)
  /\ reply' = NoReply
  /\ inflight' = [inflight EXCEPT ![p] = Idle]
  /\ UNCHANGED <<adminEnv, openai, ui, requests, books, now, input, okCalls>>

EnvAlphabet == {"a", "A", "r", ",", " "}
MailAlphabet == {"a", "A", "r", " "}

\* req.user: none, one without e-mail, one with any e-mail over MailAlphabet
GuardCallers ==
  { Anonymous, [auth |-> TRUE, email |-> <<>>] }
  \cup { [auth |-> TRUE, email |-> e] : e \in StringsUpTo(MailAlphabet, MaxMailLen) }

InitAdmin ==
  /\ now = 1
  /\ adminEnv \in StringsUpTo(EnvAlphabet, MaxEnvLen)
  /\ requests = <<>>
  /\ books = NoBooks
  /\ last = NoCall
  /\ inflight = [p \in {1} |-> Idle]
  /\ input \in GuardCallers
  /\ okCalls = NoCalls
  /\ reply = NoReply
  /\ openai = NoClient
  /\ ui = NoUi

NextAdmin ==
  \/ attachAdminInfo(input)
  \/ requireAdmin(1, input)
  \/ guardedHandler(1)

SpecAdmin == InitAdmin /\ [][NextAdmin]_vars


(***************************************************************************)
(* aiController.js: chatWithAI and its rule-based replies                    *)
(***************************************************************************)
\* String.prototype.includes
RECURSIVE Includes(_, _)
Includes(s, w) ==
  IF Len(w) > Len(s) THEN FALSE
  ELSE IF SubSeq(s, 1, Len(w)) = w THEN TRUE
  ELSE Includes(Tail(s), w)

\* the canned replies, each given by its first sentence
Canned ==
  [ fiction |-> "You can find fiction books in the Books page under the Fiction category.",
    science |-> "Science books are available in the Books page under the Science category.",
    ebook |-> "E-books are available on the Digital Books page and also shown on the Home page.",
    audiobook |-> "Audiobooks are available on the Digital Books page and also shown on the Home page.",
    find |-> "You can find books in several ways:",
    how |-> "EasyReads is easy to use! Here's how:",
    recommend |-> "I can help you find great books! Here are some options:",
    category |-> "EasyReads offers books in 7 main categories:",
    request |-> "If a book you want isn't available, you can request it!",
    feature |-> "EasyReads offers:",
    greeting |-> "Hello! I'm here to help you with EasyReads. You can ask me about:",
    default |-> "I'm here to help you with EasyReads! You can ask me about:" ]

CannedReplies == { Canned[k] : k \in DOMAIN Canned }

\* generateAIResponse with the greeting rule tested first
generateAIResponseGreetingFirst(userMessage) ==
  LET lowerMessage == ToLowerCase(userMessage) IN
  IF \/ Includes(lowerMessage, <<"h", "e", "l", "l", "o">>)
     \/ Includes(lowerMessage, <<"h", "i">>)
     \/ Includes(lowerMessage, <<"h", "e", "y">>)
  THEN Canned.greeting
  ELSE IF \/ Includes(lowerMessage, <<"f", "i", "n", "d">>)
          \/ Includes(lowerMessage, <<"s", "e", "a", "r", "c", "h">>)
          \/ Includes(lowerMessage, <<"b", "o", "o", "k">>)
  THEN IF Includes(lowerMessage, <<"f", "i", "c", "t", "i", "o", "n">>) THEN Canned.fiction
       ELSE IF Includes(lowerMessage, <<"s", "c", "i", "e", "n", "c", "e">>) THEN Canned.science
       ELSE IF \/ Includes(lowerMessage, <<"e", "b", "o", "o", "k">>)
               \/ Includes(lowerMessage, <<"e", "-", "b", "o", "o", "k">>)
            THEN Canned.ebook
       ELSE IF Includes(lowerMessage, <<"a", "u", "d", "i", "o", "b", "o", "o", "k">>) THEN Canned.audiobook
       ELSE Canned.find
  ELSE IF /\ Includes(lowerMessage, <<"h", "o", "w">>)
          /\ \/ Includes(lowerMessage, <<"u", "s", "e">>)
             \/ Includes(lowerMessage, <<"w", "o", "r", "k">>)
  THEN Canned.how
  ELSE IF \/ Includes(lowerMessage, <<"r", "e", "c", "o", "m", "m", "e", "n", "d">>)
          \/ Includes(lowerMessage, <<"s", "u", "g", "g", "e", "s", "t">>)
  THEN Canned.recommend
  ELSE IF \/ Includes(lowerMessage, <<"c", "a", "t", "e", "g", "o", "r", "y">>)
          \/ Includes(lowerMessage, <<"c", "a", "t", "e", "g", "o", "r", "i", "e", "s">>)
  THEN Canned.category
  ELSE IF \/ Includes(lowerMessage, <<"r", "e", "q", "u", "e", "s", "t">>)
          \/ Includes(lowerMessage, <<"n", "o", "t", " ", "a", "v", "a", "i", "l", "a", "b", "l", "e">>)
  THEN Canned.request
  ELSE IF \/ Includes(lowerMessage, <<"f", "e", "a", "t", "u", "r", "e">>)
          \/ Includes(lowerMessage, <<"w", "h", "a", "t", " ", "c", "a", "n">>)
  THEN Canned.feature
  ELSE Canned.default

\* generateAIResponse: the first rule whose keywords the lower-cased message
\* includes, in the order of the source
generateAIResponse(userMessage) ==
  LET lowerMessage == ToLowerCase(userMessage) IN
  IF \/ Includes(lowerMessage, <<"f", "i", "n", "d">>)
     \/ Includes(lowerMessage, <<"s", "e", "a", "r", "c", "h">>)
     \/ Includes(lowerMessage, <<"b", "o", "o", "k">>)
  THEN IF Includes(lowerMessage, <<"f", "i", "c", "t", "i", "o", "n">>) THEN Canned.fiction
       ELSE IF Includes(lowerMessage, <<"s", "c", "i", "e", "n", "c", "e">>) THEN Canned.science
       ELSE IF \/ Includes(lowerMessage, <<"e", "b", "o", "o", "k">>)
               \/ Includes(lowerMessage, <<"e", "-", "b", "o", "o", "k">>)
            THEN Canned.ebook
       ELSE IF Includes(lowerMessage, <<"a", "u", "d", "i", "o", "b", "o", "o", "k">>) THEN Canned.audiobook
       ELSE Canned.find
  ELSE IF /\ Includes(lowerMessage, <<"h", "o", "w">>)
          /\ \/ Includes(lowerMessage, <<"u", "s", "e">>)
             \/ Includes(lowerMessage, <<"w", "o", "r", "k">>)
  THEN Canned.how
  ELSE IF \/ Includes(lowerMessage, <<"r", "e", "c", "o", "m", "m", "e", "n", "d">>)
          \/ Includes(lowerMessage, <<"s", "u", "g", "g", "e", "s", "t">>)
  THEN Canned.recommend
  ELSE IF \/ Includes(lowerMessage, <<"c", "a", "t", "e", "g", "o", "r", "y">>)
          \/ Includes(lowerMessage, <<"c", "a", "t", "e", "g", "o", "r", "i", "e", "s">>)
  THEN Canned.category
  ELSE IF \/ Includes(lowerMessage, <<"r", "e", "q", "u", "e", "s", "t">>)
          \/ Includes(lowerMessage, <<"n", "o", "t", " ", "a", "v", "a", "i", "l", "a", "b", "l", "e">>)
  THEN Canned.request
  ELSE IF \/ Includes(lowerMessage, <<"f", "e", "a", "t", "u", "r", "e">>)
          \/ Includes(lowerMessage, <<"w", "h", "a", "t", " ", "c", "a", "n">>)
  THEN Canned.feature
  ELSE IF \/ Includes(lowerMessage, <<"h", "e", "l", "l", "o">>)
          \/ Includes(lowerMessage, <<"h", "i">>)
          \/ Includes(lowerMessage, <<"h", "e", "y">>)
  THEN Canned.greeting
  ELSE Canned.default

\* what openai.chat.completions.create does: it answers with a text, it
\* answers without choices, or it rejects
CompletionText == <<"o", "k">>
CompletionOutcomes == {"content", "noChoices", "rejects"}

\* chatWithAI up to the await: 400 for a message that is missing, empty or
\* blank, the canned reply without a client or a key, otherwise one call of
\* the completion API
chatWithAIBegin(p, body) ==
  /\ inflight[p].pc = "idle"
  /\ IF ~Truthy(body, "message") \/ Len(Trim(body.message)) = 0
     THEN /\ last' = Answer("chatWithAI", 400, Anonymous, 0)
          /\ reply' = [success |-> FALSE, calls |-> 0, completion |-> "none"]
          /\ UNCHANGED <<inflight, openai>>
     ELSE IF ~openai.client \/ ~openai.key
     THEN /\ last' = Answer("chatWithAI", 200, Anonymous, 0)
          /\ reply' = [success |-> TRUE,
                       response |-> generateAIResponse(Trim(body.message)),
                       calls |-> 0, completion |-> "none"]
          /\ UNCHANGED <<inflight, openai>>
     ELSE /\ openai.calls < MaxCalls
          /\ openai' = [openai EXCEPT !.calls = @ + 1]
          /\ inflight' = [inflight EXCEPT ![p] =
                            [pc |-> "completion", message |-> body.message, calls |-> 1]]
          /\ UNCHANGED <<last, reply>>
  /\ UNCHANGED <<adminEnv, ui, requests, books, now, input, okCalls>>

\* chatWithAI after the await, without the inner catch: a failure of the
\* call reaches the outer catch
chatWithAIEndNoFallback(p, outcome) ==
  /\ inflight[p].pc = "completion"
  /\ IF outcome = "content"
     THEN /\ last' = Answer("chatWithAI", 200, Anonymous, 0)
          /\ reply' = [success |-> TRUE, response |-> CompletionText,
                       calls |-> inflight[p].calls, completion |-> outcome]
     ELSE /\ last' = Answer("chatWithAI", 500, Anonymous, 0)
          /\ reply' = [success |-> FALSE, calls |-> inflight[p].calls, completion |-> outcome]
  /\ inflight' = [inflight EXCEPT ![p] = Idle]
  /\ UNCHANGED <<adminEnv, openai, ui, requests, books, now, input, okCalls>>

\* chatWithAI after the await: the completion's text, or, when the call or
\* the reading of choices[0] throws, the canned reply
chatWithAIEnd(p, outcome) ==
  /\ inflight[p].pc = "completion"
  /\ last' = Answer("chatWithAI", 200, Anonymous, 0)
  /\ reply' = [success |-> TRUE,
               response |-> IF outcome = "content" THEN CompletionText
                            ELSE generateAIResponse(Trim(inflight[p].message)),
               calls |-> inflight[p].calls, completion |-> outcome]
  /\ inflight' = [inflight EXCEPT ![p] = Idle]
  /\ UNCHANGED <<adminEnv, openai, ui, requests, books, now, input, okCalls>>

\* words a message is made of
Words ==
  { <<"h", "e", "l", "l", "o">>,
    <<"A", "u", "d", "i", "o", "b", "o", "o", "k">>,
    <<"b", "o", "o", "k">>,
    <<"f", "i", "n", "d">>,
    <<"f", "i", "c", "t", "i", "o", "n">>,
    <<"s", "c", "i", "e", "n", "c", "e">>,
    <<"e", "b", "o", "o", "k">>,
    <<"h", "o", "w">>,
    <<"u", "s", "e">>,
    <<"r", "e", "c", "o", "m", "m", "e", "n", "d">>,
    <<"c", "a", "t", "e", "g", "o", "r", "y">>,
    <<"r", "e", "q", "u", "e", "s", "t">>,
    <<"f", "e", "a", "t", "u", "r", "e">>,
    <<"t", "h", "i", "s">>,
    <<"o", "k">> }

RECURSIVE JoinWords(_)
JoinWords(ws) ==
  IF ws = <<>> THEN <<>>
  ELSE IF Len(ws) = 1 THEN ws[1]
  ELSE ws[1] \o <<" ">> \o JoinWords(Tail(ws))

\* bodies: no message, an empty or blank one, and up to MaxWords words,
\* as typed or with blanks around them
ChatBodies ==
  { [other |-> <<"t">>], [message |-> <<>>], [message |-> <<" ">>] }
  \cup { [message |-> JoinWords(ws)] : ws \in StringsUpTo(Words, MaxWords) \ {<<>>} }
  \cup { [message |-> <<" ">> \o JoinWords(ws) \o <<" ">>] :
           ws \in StringsUpTo(Words, MaxWords) \ {<<>>} }

\* OPENAI_API_KEY unset, set with a client, set while the constructor threw
Clients ==
  { NoClient,
    [key |-> TRUE, client |-> TRUE, calls |-> 0],
    [key |-> TRUE, client |-> FALSE, calls |-> 0] }

InitChat ==
  /\ now = 1
  /\ adminEnv = ServerAdminEnv
  /\ requests = <<>>
  /\ books = NoBooks
  /\ last = NoCall
  /\ inflight = [p \in {1} |-> Idle]
  /\ input \in ChatBodies
  /\ okCalls = NoCalls
  /\ reply = NoReply
  /\ openai \in Clients
  /\ ui = NoUi

\* the next request arrives with another body
nextChatRequest(body) ==
  /\ inflight[1].pc = "idle"
  /\ last.op = "chatWithAI"
  /\ input' = body
  /\ last' = NoCall
  /\ reply' = NoReply
  /\ UNCHANGED <<adminEnv, openai, ui, requests, books, now, inflight, okCalls>>

FollowUps ==
  { [message |-> <<"h", "e", "l", "l", "o">>], [message |-> <<"o", "k">>],
    [message |-> <<"h", "o", "w">>] }

NextChat ==
  \/ chatWithAIBegin(1, input)
  \/ \E b \in FollowUps : nextChatRequest(b)
  \/ \E o \in CompletionOutcomes : chatWithAIEnd(1, o)

SpecChat == InitChat /\ [][NextChat]_vars

(***************************************************************************)
(* The React client: AuthProvider, the route guards of App.jsx and          *)
(* RootRedirect                                                             *)
(***************************************************************************)
\* utils/admin isAdmin: the allow-list test on the signed-in e-mail
isAdmin(email) == isAdminEmail(adminEnv, email)

Content(page) == [kind |-> "content", page |-> page]
Navigate(to) == [kind |-> "navigate", to |-> to]

\* PrivateRoute without the test for an admin
PrivateRouteNoAdminTest(currentUser, children) ==
  IF ~currentUser.auth THEN Navigate("/login")
  ELSE Content(children)

PrivateRoute(currentUser, children) ==
  IF ~currentUser.auth THEN Navigate("/login")
  ELSE IF isAdmin(currentUser.email) THEN Navigate("/admin")
  ELSE Content(children)

\* AdminRoute, and the effect of the Admin page it renders, which navigates
\* on the same two tests
AdminRoute(currentUser, children) ==
  IF ~currentUser.auth THEN Navigate("/login")
  ELSE IF ~isAdmin(currentUser.email) THEN Navigate("/home")
  ELSE Content(children)

RootRedirect(currentUser) ==
  IF ~currentUser.auth THEN Navigate("/login")
  ELSE IF isAdmin(currentUser.email) THEN Navigate("/admin")
  ELSE Navigate("/home")

UserPages == {"/home", "/books", "/digital-books", "/requests"}
Paths == {"/", "/login", "/signup", "/admin"} \cup UserPages

PageOf(path) ==
  CASE path = "/home" -> "Home"
    [] path = "/books" -> "Books"
    [] path = "/digital-books" -> "DigitalBooks"
    [] path = "/requests" -> "Requests"
    [] OTHER -> "none"

\* AppRoutes: the element of the route that matches the path
AppRoutes(path, currentUser) ==
  CASE path = "/login" -> Content("Login")
    [] path = "/signup" -> Content("Signup")
    [] path \in UserPages -> PrivateRoute(currentUser, PageOf(path))
    [] path = "/admin" -> AdminRoute(currentUser, "Admin")
    [] OTHER -> RootRedirect(currentUser)

RouterUnchanged ==
  UNCHANGED <<adminEnv, requests, books, now, last, inflight, input, okCalls,
              reply, openai>>

\* the visitor opens a URL or follows a link
visit(path) ==
  /\ ui' = [ui EXCEPT !.start = path, !.path = path, !.shown = "nothing",
                      !.redirects = 0, !.due = TRUE]
  /\ RouterUnchanged

\* the callback of onAuthStateChanged: setCurrentUser(user), setLoading(false);
\* the tree renders again, starting from the route the client is on
onAuthStateChanged(user) ==
  /\ ui' = [ui EXCEPT !.currentUser = user, !.loading = FALSE, !.start = ui.path,
                      !.shown = "nothing", !.redirects = 0, !.due = TRUE]
  /\ RouterUnchanged

\* one render of the routes: the page, or a Navigate that changes the path
renderElement(element) ==
  /\ ui.due
  /\ ui.redirects < MaxRedirects
  /\ ui' = IF element.kind = "content"
           THEN [ui EXCEPT !.shown = element.page, !.due = FALSE,
                           !.guards = @ \/ ui.path \notin {"/login", "/signup"}]
           ELSE [ui EXCEPT !.path = element.to, !.redirects = @ + 1,
                           !.guards = TRUE]
  /\ RouterUnchanged

\* AuthProvider rendering its children whatever loading is
renderAppLoading == renderElement(AppRoutes(ui.path, ui.currentUser))

\* AuthProvider: {!loading && children}
renderApp ==
  /\ ~ui.loading
  /\ renderElement(AppRoutes(ui.path, ui.currentUser))

StartRoutes == {"/", "/admin"} \cup UserPages

\* who Firebase reports: nobody, a user, one of the two admins
FirebaseUsers == {Anonymous, User, Admin, [auth |-> TRUE, email |-> RootMail]}

InitRoutes ==
  /\ now = 1
  /\ adminEnv = ServerAdminEnv
  /\ requests = <<>>
  /\ books = NoBooks
  /\ last = NoCall
  /\ inflight = NoInflight
  /\ input = NoInput
  /\ okCalls = NoCalls
  /\ reply = NoReply
  /\ openai = NoClient
  /\ \E p \in StartRoutes :
       ui = [currentUser |-> Anonymous, loading |-> TRUE, start |-> p, path |-> p,
             shown |-> "nothing", redirects |-> 0, due |-> TRUE, guards |-> FALSE]

NextRoutes ==
  \/ \E p \in Paths : visit(p)
  \/ \E u \in FirebaseUsers : onAuthStateChanged(u)
  \/ renderApp

SpecRoutes == InitRoutes /\ [][NextRoutes]_vars

(***************************************************************************)
(* updateBookRating beside a patchBook of the same book                      *)
(***************************************************************************)
\* { rating, reviewCount }: the count of the body, or the one computed
ratingFields(doc, rating, reviewCount) ==
  [doc EXCEPT !.rating = rating, !.reviewCount = reviewCount]

\* updateBookRating up to the update: 400 for a rating that is missing or
\* outside 0..5; with a reviewCount in the body the update follows at once;
\* without one the handler first awaits Book.findById(id) and reads
\* reviewCount from what it returns, which throws for an id that cannot be
\* cast and for null
updateBookRatingBegin(p, caller, id, body) ==
  /\ inflight[p].pc = "idle"
  /\ IF ~Has(body, "rating") \/ body.rating < 0 \/ body.rating > 5
     THEN /\ last' = Answer("updateBookRating", 400, caller, 0)
          /\ UNCHANGED <<books, inflight>>
     ELSE IF ~isObjectIdString(id)
     THEN /\ last' = Answer("updateBookRating", 500, caller, 0)
          /\ UNCHANGED <<books, inflight>>
     ELSE IF Has(body, "reviewCount") /\ body.reviewCount # 0
     THEN /\ IF FindBook(id) = 0
             THEN /\ last' = Answer("updateBookRating", 404, caller, 0)
                  /\ UNCHANGED books
             ELSE /\ books' = [books EXCEPT ![FindBook(id)] =
                                 ratingFields(@, body.rating, body.reviewCount)]
                  /\ last' = Answer("updateBookRating", 200, caller, FindBook(id))
          /\ UNCHANGED inflight
     ELSE IF FindBook(id) = 0
     THEN /\ last' = Answer("updateBookRating", 500, caller, 0)
          /\ UNCHANGED <<books, inflight>>
     ELSE /\ books[FindBook(id)].reviewCount < MaxReviews
          /\ inflight' = [inflight EXCEPT ![p] =
                            [pc |-> "update", caller |-> caller, id |-> id,
                             rating |-> body.rating,
                             reviewCount |-> books[FindBook(id)].reviewCount + 1]]
          /\ UNCHANGED <<books, last>>
  /\ reply' = [reply EXCEPT !.rating = IF inflight'[p].pc = "idle" THEN last'.code ELSE 0]
  /\ UNCHANGED <<adminEnv, openai, ui, requests, now, input, okCalls>>

\* updateBookRating from findByIdAndUpdate on: 404 when the book is gone
updateBookRatingEnd(p) ==
  /\ inflight[p].pc = "update"
  /\ IF FindBook(inflight[p].id) = 0
     THEN /\ last' = Answer("updateBookRating", 404, inflight[p].caller, 0)
          /\ UNCHANGED books
     ELSE /\ books' = [books EXCEPT ![FindBook(inflight[p].id)] =
                         ratingFields(@, inflight[p].rating, inflight[p].reviewCount)]
          /\ last' = Answer("updateBookRating", 200, inflight[p].caller,
                            FindBook(inflight[p].id))
  /\ inflight' = [inflight EXCEPT ![p] = Idle]
  /\ reply' = [reply EXCEPT !.rating = last'.code]
  /\ UNCHANGED <<adminEnv, openai, ui, requests, now, input, okCalls>>

\* the patchBook of the admin, once
patchBesideRating ==
  /\ reply.patch = 0
  /\ patchBookAnswer(Admin, input.id, input.patch)
  /\ reply' = [reply EXCEPT !.patch = last'.code]
  /\ UNCHANGED <<adminEnv, openai, ui, requests, now, inflight, input, okCalls>>

\* the book both calls address
RatedBook ==
  [exists |-> TRUE, name |-> <<"t">>, ISBN |-> Isbn1, copies |-> DefaultCopies,
   availability |-> DefaultAvailability, views |-> 0, downloads |-> 0,
   createdAt |-> 1, rating |-> 2, reviewCount |-> 1]

RatingBodies ==
  { <<>>, [reviewCount |-> 2], [rating |-> 0 - 1], [rating |-> 6],
    [rating |-> 6, reviewCount |-> 2] }
  \cup { [rating |-> r] : r \in {0, 4, 5} }
  \cup { [rating |-> r, reviewCount |-> c] : r \in {0, 4}, c \in {0, 3} }

RatingPatchBodies ==
  { [reviewCount |-> 3], [rating |-> 1], [rating |-> 1, reviewCount |-> 2],
    [views |-> 2], [unlisted |-> <<"n">>] }

InitRating ==
  /\ now = 1
  /\ adminEnv = ServerAdminEnv
  /\ requests = <<>>
  /\ books = <<RatedBook>>
  /\ last = NoCall
  /\ inflight = [p \in {1} |-> Idle]
  /\ input \in [rating : RatingBodies, patch : RatingPatchBodies,
                id : {ObjectId(1), UnknownId, MalformedId}]
  /\ okCalls = NoCalls
  /\ reply = [rating |-> 0, patch |-> 0]
  /\ openai = NoClient
  /\ ui = NoUi

NextRating ==
  \/ reply.rating = 0 /\ updateBookRatingBegin(1, User, input.id, input.rating)
  \/ updateBookRatingEnd(1)
  \/ patchBesideRating

SpecRating == InitRating /\ [][NextRating]_vars

(***************************************************************************)
(* One request through approve, reject, fulfil and upvote; reply keeps the   *)
(* collection as it was before the last call, with the call's id and body    *)
(***************************************************************************)
Before(id, body) == [before |-> requests, id |-> id, body |-> body, at |-> now]

LifecycleFrame == UNCHANGED <<adminEnv, openai, ui, books, now, inflight, input>>

approveCall(caller, id, body) ==
  /\ approveBookRequestAnswer(caller, id, body)
  /\ reply' = Before(id, body)
  /\ UNCHANGED okCalls
  /\ LifecycleFrame

rejectCall(caller, id, body) ==
  /\ rejectBookRequestAnswer(caller, id, body)
  /\ reply' = Before(id, body)
  /\ UNCHANGED okCalls
  /\ LifecycleFrame

fulfilCall(caller, id) ==
  /\ markRequestFulfilledAnswer(caller, id)
  /\ reply' = Before(id, <<>>)
  /\ UNCHANGED okCalls
  /\ LifecycleFrame

upvoteCall(caller, id) ==
  /\ okCalls.upvotes[1] < MaxUpvotes
  /\ upvoteRequestAnswer(caller, id)
  /\ reply' = Before(id, <<>>)
  /\ LifecycleFrame

InitLifecycle ==
  /\ adminEnv = ServerAdminEnv
  /\ now = 1
  /\ requests =
       << newBookRequest([title |-> <<"t">>, author |-> <<"o">>,
                          requesterEmail |-> UserMail]) >>
  /\ books = NoBooks
  /\ last = NoCall
  /\ inflight = NoInflight
  /\ input = NoInput
  /\ okCalls = NoCalls
  /\ reply = Before(<<>>, <<>>)
  /\ openai = NoClient
  /\ ui = NoUi

NextLifecycle ==
  \/ \E c \in {User, Admin}, id \in ReqIdParams, b \in NotesBodies : approveCall(c, id, b)
  \/ \E c \in {User, Admin}, id \in ReqIdParams, b \in NotesBodies : rejectCall(c, id, b)
  \/ \E c \in {User, Admin}, id \in ReqIdParams : fulfilCall(c, id)
  \/ \E c \in {Anonymous, User}, id \in ReqIdParams : upvoteCall(c, id)
  \/ Tick

SpecLifecycle == InitLifecycle /\ [][NextLifecycle]_vars

(***************************************************************************)
(* The request table of the dashboard beside request creation and fulfil     *)
(***************************************************************************)
NextDashboard ==
  \/ \E b \in RoutePostBodies : Len(requests) < MaxDocs /\ routePost(Anonymous, b)
  \/ \E id \in DocIdParams : markRequestFulfilled(Admin, id)
  \/ \E n \in DOMAIN requests : dashboardApprove(n)
  \/ \E n \in DOMAIN requests : dashboardReject(n)
  \/ \E n \in DOMAIN requests : dashboardReset(n)

SpecDashboard == InitReq /\ [][NextDashboard]_vars

(***************************************************************************)
(* AIAssistant.jsx: the chat widget                                          *)
(***************************************************************************)
WidgetFrame ==
  UNCHANGED <<adminEnv, requests, books, now, last, inflight, input, okCalls,
              reply, openai>>

Greeting ==
  <<"Hello! I'm your EasyReads AI assistant. I can help you find books, answer questions about our library, or assist with any EasyReads-related queries. How can I help you today?">>
ErrorText == <<"Sorry, I encountered an error. Please try again later.">>
ResponseText == <<"data.response">>

\* onChange of the text input, which is disabled while loading
setInput(text) ==
  /\ ~ui.loading
  /\ ui' = [ui EXCEPT !.input = text]
  /\ WidgetFrame

\* handleSend up to the await of fetch: nothing for a blank input or while
\* loading; otherwise the user message is appended and the request sent
handleSend ==
  /\ Len(ui.messages) < 2 * MaxChat + 1
  /\ ui' = IF Trim(ui.input) = <<>> \/ ui.loading
           THEN [ui EXCEPT !.ignored = @ + 1]
           ELSE [ui EXCEPT !.input = <<>>,
                           !.messages = Append(@, [role |-> "user",
                                                   content |-> Trim(ui.input)]),
                           !.loading = TRUE,
                           !.outstanding = @ + 1]
  /\ ui.ignored < MaxChat
  /\ WidgetFrame

\* handleSend after the await whose catch appends nothing
fetchSettlesNoErrorText(outcome) ==
  /\ ui.outstanding > 0
  /\ ui' = [ui EXCEPT !.messages = IF outcome = "ok"
                                   THEN Append(@, [role |-> "assistant",
                                                   content |-> ResponseText])
                                   ELSE @,
                      !.loading = FALSE,
                      !.outstanding = @ - 1]
  /\ WidgetFrame

\* handleSend after the await: the reply, or the error text when fetch
\* rejects, the answer is not ok or its body cannot be read; finally
\* setLoading(false)
fetchSettles(outcome) ==
  /\ ui.outstanding > 0
  /\ ui' = [ui EXCEPT !.messages = Append(@, [role |-> "assistant",
                                              content |-> IF outcome = "ok"
                                                          THEN ResponseText
                                                          ELSE ErrorText]),
                      !.loading = FALSE,
                      !.outstanding = @ - 1]
  /\ WidgetFrame

FetchOutcomes == {"ok", "notOk", "rejects"}

TypedTexts == { <<>>, <<" ">>, <<" ", "o", "k">>, <<"h", "i", " ">> }

InitWidget ==
  /\ now = 1
  /\ adminEnv = ServerAdminEnv
  /\ requests = <<>>
  /\ books = NoBooks
  /\ last = NoCall
  /\ inflight = NoInflight
  /\ input = NoInput
  /\ okCalls = NoCalls
  /\ reply = NoReply
  /\ openai = NoClient
  /\ ui = [messages |-> << [role |-> "assistant", content |-> Greeting] >>,
           input |-> <<>>, loading |-> FALSE, outstanding |-> 0, ignored |-> 0]

NextWidget ==
  \/ \E t \in TypedTexts : setInput(t)
  \/ handleSend
  \/ \E o \in FetchOutcomes : fetchSettles(o)

\* every request sent is settled: fetch resolves or rejects
SpecWidget ==
  InitWidget /\ [][NextWidget]_vars /\ WF_vars(\E o \in FetchOutcomes : fetchSettles(o))

(***************************************************************************)
(* Properties of the admin gate and of the request lifecycle                *)
(***************************************************************************)
GatedOps ==
  {"createBook", "updateBook", "patchBook", "deleteBook", "deleteMultipleBooks",
   "approve", "reject", "fulfil"}

\* the step is a call answered now (the clock moves only between calls)
IsCall == now' = now

IsAdminCaller(c) == c.auth /\ isAdminEmail(adminEnv, c.email)

\* C1: an admin-gated endpoint answers 401 to a call with no identity and 403
\* to an authenticated caller who is no admin, and neither call changes the
\* stored books or requests.
C1_GateAnswers401And403 ==
  [][ (IsCall /\ last'.op \in GatedOps /\ ~IsAdminCaller(last'.caller))
        => /\ last'.code = IF last'.caller.auth THEN 403 ELSE 401
           /\ books' = books
           /\ requests' = requests ]_vars

\* C2: the status of an existing request changes only in a step of a caller
\* whose authenticated e-mail is in the admin set.
C2_StatusChangesOnlyByAdmin ==
  [][ \A n \in DOMAIN requests :
        (requests[n].exists /\ requests'[n].exists
           /\ requests'[n].status # requests[n].status)
          => IsAdminCaller(last'.caller) ]_vars

\* C3: the book collection changes only in a call of a caller whose
\* authenticated e-mail is in the admin set.
C3_BooksChangeOnlyByAdmin ==
  [][ books' # books => IsAdminCaller(last'.caller) ]_vars

\* C4: a request just created through POST /api/requests or
\* POST /api/book-requests has status pending, whatever the body carries.
C4_CreatedIsPending ==
  (last.op \in {"createBookRequest", "routePost"} /\ last.code = 201)
    => requests[last.doc].status = "pending"

C8_RejectedHasReason ==
  \A n \in DOMAIN requests :
    (requests[n].exists /\ requests[n].status = "rejected")
      => requests[n].adminNotes # <<>>


\* the body fails one of the three checks: blank or missing title, blank or
\* missing author, missing e-mail or e-mail outside the pattern
C5_Rejected(body) ==
  \/ ~Has(body, "title") \/ Trim(body.title) = <<>>
  \/ ~Has(body, "author") \/ Trim(body.author) = <<>>
  \/ ~Has(body, "requesterEmail") \/ ~emailRegexTest(body.requesterEmail)

PageNums == 1..MaxDocs
LimitNums == 1..MaxDocs

InPages(n, caller, limitNum) ==
  \E pageNum \in PageNums :
    \E i \in 1..Len(getUserRequests(caller, pageNum, limitNum)) :
      getUserRequests(caller, pageNum, limitNum)[i] = n

InList(n, list) == \E i \in 1..Len(list) : list[i] = n

C10_NoLostCounterUpdates ==
  \A n \in DOMAIN books :
    /\ books[n].views = okCalls.views[n]
    /\ books[n].downloads = okCalls.downloads[n]


ListOps == {"getAllBooks", "getBooksByGenre", "searchBooks", "getBookRequests"}

\* C11: whatever page and limit the query carries, the limit a list endpoint
\* passes to its query is between 1 and 100 and the page it uses is at least
\* 1 (the skip is a whole number of pages, not negative); limit=500 gives
\* limit 100 and page=0 gives page 1.
C11_PaginationClamped ==
  (last.op \in ListOps /\ Has(reply, "limit"))
    => /\ ~reply.limit.nan /\ reply.limit.v \in 1..100
       /\ ~reply.skip.nan /\ reply.skip.v >= 0
       /\ (Has(input, "limit") /\ input.limit = <<"5", "0", "0">>) => reply.limit.v = 100
       /\ (Has(input, "page") /\ input.page = <<"0">>) => reply.skip.v = 0


PaginatedOps == {"getAllBooks", "getBooksByGenre", "getBookRequests"}

\* C12: a paginated list endpoint answers with an envelope of page, limit,
\* total, pages, hasNext and hasPrev where pages is total / limit rounded up,
\* hasNext is page < pages, hasPrev is page > 1, and with at most limit items
\* (stated for a page and a limit that parseInt reads as numbers).
C12_EnvelopeConsistent ==
  (last.op \in PaginatedOps /\ last.code = 200 /\ ~skipOf(input).nan)
    => /\ DOMAIN reply.pagination = {"page", "limit", "total", "pages", "hasNext", "hasPrev"}
       /\ ~reply.pagination.page.nan
       /\ ~reply.pagination.limit.nan
       /\ ~reply.pagination.pages.nan
       /\ reply.pagination.pages.v * reply.pagination.limit.v >= reply.pagination.total
       /\ (reply.pagination.pages.v - 1) * reply.pagination.limit.v < reply.pagination.total
       /\ reply.pagination.hasNext = (reply.pagination.page.v < reply.pagination.pages.v)
       /\ reply.pagination.hasPrev = (reply.pagination.page.v > 1)
       /\ Len(reply.data) <= reply.pagination.limit.v


NoTwoBooksShareIsbn ==
  \A m, n \in StoredBooks : m # n => books[m].ISBN # books[n].ISBN

\* C13: no two stored books share an ISBN, and when createBook comes to store
\* a book whose trimmed ISBN a stored book already has, it answers 409 and
\* leaves the collection unchanged, also for concurrent calls.
C13_DuplicateIsbnAnswers409 ==
  /\ []NoTwoBooksShareIsbn
  /\ [][ \A p \in Procs :
           (inflight[p].pc = "createBook" /\ inflight'[p].pc = "idle"
              /\ FindIsbn(Trim(inflight[p].body.ISBN)))
             => (last'.code = 409 /\ books' = books) ]_vars

\* a createBook whose ISBN as sent is not stored, so that findOne found
\* nothing, but whose trimmed ISBN is stored, was answered 409 from the save
C13_DuplicateCaughtAtSave ==
  /\ last.op = "createBook" /\ last.code = 409
  /\ Has(input, "ISBN")
  /\ ~FindIsbn(input.ISBN)
  /\ FindIsbn(Trim(input.ISBN))


\* C14: a patchBook call changes only the book it names and, of that book,
\* only allow-listed fields that the body carries; an admin's body with no
\* allow-listed field is answered 400 and changes nothing.
C14_PatchWritesOnlyAllowList ==
  [][ last'.op = "patchBook"
        => /\ DOMAIN books' = DOMAIN books
           /\ \A n \in DOMAIN books : \A f \in DOMAIN books[n] :
                (n # last'.doc \/ f \notin allowedFields \/ ~Has(input, f))
                  => books'[n][f] = books[n][f]
           /\ (IsAdminCaller(last'.caller) /\ DOMAIN input \cap allowedFields = {})
                => (last'.code = 400 /\ books' = books) ]_vars

\* a body with the allow-listed views and the unlisted createdAt was answered
\* 200: views is written, createdAt is not
C14_PatchedWithUnlistedField ==
  /\ last.op = "patchBook" /\ last.code = 200
  /\ Has(input, "views") /\ Has(input, "createdAt")
  /\ books[last.doc].views = input.views
  /\ books[last.doc].createdAt # input.createdAt


\* the characters i..j of the configuration are one entry of the
\* comma-separated list
IsEntry(i, j) ==
  /\ i = 1 \/ adminEnv[i - 1] = ","
  /\ j = Len(adminEnv) \/ adminEnv[j + 1] = ","
  /\ \A k \in i..j : adminEnv[k] # ","

\* the e-mail, trimmed and in lower case, is a non-empty entry of the
\* configuration, trimmed and in lower case
InAdminSet(email) ==
  /\ Trim(ToLowerCase(email)) # <<>>
  /\ \E i \in 1..Len(adminEnv), j \in 1..Len(adminEnv) :
       /\ i <= j
       /\ IsEntry(i, j)
       /\ Trim(ToLowerCase(SubSeq(adminEnv, i, j))) = Trim(ToLowerCase(email))

\* C15: isAdminEmail(e) is true exactly when e, trimmed and in lower case, is
\* one of the trimmed, lower-cased, non-empty entries of the configuration:
\* never with an empty configuration, never for an empty or missing e-mail.
C15_IsAdminExactlyMembers ==
  last.op = "attachAdminInfo"
    => /\ reply.isAdmin = (last.caller.auth /\ InAdminSet(last.caller.email))
       /\ adminEnv = <<>> => ~reply.isAdmin
       /\ last.caller.email = <<>> => ~reply.isAdmin


C17_NoKeyCannedReply ==
  (/\ last.op = "chatWithAI"
   /\ ~openai.key
   /\ Truthy(input, "message")
   /\ Trim(input.message) # <<>>)
    => /\ openai.calls = 0
       /\ reply.calls = 0
       /\ last.code = 200
       /\ reply.success
       /\ reply.response \in CannedReplies
       /\ Includes(input.message, <<"h", "e", "l", "l", "o">>) => reply.response = Canned.greeting

\* C18: with a key and a client, when the completion call fails (it rejects,
\* or it answers without choices), chatWithAI answers success with the canned
\* reply of the key-less path for the same trimmed message, and the completion
\* API was called once for the request.
C18_FailureFallsBackToCanned ==
  /\ \A p \in DOMAIN inflight :
       inflight[p].pc = "completion" => inflight[p].calls = 1
  /\ (last.op = "chatWithAI" /\ reply.completion \in {"rejects", "noChoices"})
       => /\ last.code = 200
          /\ reply.success
          /\ reply.response = generateAIResponse(Trim(input.message))
          /\ reply.response \in CannedReplies
          /\ reply.calls = 1

\* the call rejected for a message typed with blanks around it, and the
\* answer is the greeting
C18_RejectedAnsweredGreeting ==
  /\ last.op = "chatWithAI"
  /\ openai.key /\ openai.client
  /\ reply.completion = "rejects"
  /\ input.message # Trim(input.message)
  /\ last.code = 200
  /\ reply.response = Canned.greeting


\* C19: in every state reached by admin book writes (create, update, patch,
\* bulk import), each stored book's availability equals (copies > 0).
C19_AvailabilityFollowsCopies ==
  \A n \in DOMAIN books :
    books[n].exists => books[n].availability = (books[n].copies > 0)


\* C20: in every state reached through both request sub-APIs, the status of
\* each stored request is one of pending, approved, rejected, fulfilled.
C20_StatusInFourValues ==
  \A n \in DOMAIN requests :
    requests[n].exists
      => requests[n].status \in {"pending", "approved", "rejected", "fulfilled"}


\* the step is a render that redirects
Redirected == ui'.redirects = ui.redirects + 1

\* C21: the four user pages show their content only to a signed-in user who
\* is no admin, /admin only to a signed-in admin; a visitor without identity
\* is sent to /login, an admin on a user page to /admin, a non-admin on /admin
\* to /home.
C21_RouteGuards ==
  /\ [](/\ ui.shown \in {"Home", "Books", "DigitalBooks", "Requests"}
          => /\ ui.currentUser.auth
             /\ ~isAdminEmail(adminEnv, ui.currentUser.email)
             /\ ui.path \in UserPages
             /\ ui.shown = PageOf(ui.path)
        /\ ui.shown = "Admin"
          => /\ ui.currentUser.auth
             /\ isAdminEmail(adminEnv, ui.currentUser.email)
             /\ ui.path = "/admin")
  /\ [][/\ (renderApp /\ ui.path \in UserPages \cup {"/admin"} /\ ~ui.currentUser.auth)
             => (Redirected /\ ui'.path = "/login")
        /\ (/\ renderApp
            /\ ui.path \in UserPages
            /\ ui.currentUser.auth
            /\ isAdminEmail(adminEnv, ui.currentUser.email))
             => (Redirected /\ ui'.path = "/admin")
        /\ (/\ renderApp
            /\ ui.path = "/admin"
            /\ ui.currentUser.auth
            /\ ~isAdminEmail(adminEnv, ui.currentUser.email))
             => (Redirected /\ ui'.path = "/home")]_vars

\* an admin who opened /books was sent to /admin and sees the dashboard
C21_AdminSentToDashboard ==
  /\ ui.start = "/books"
  /\ ui.currentUser = Admin
  /\ ui.path = "/admin"
  /\ ui.redirects = 1
  /\ ui.shown = "Admin"

\* C30: the redirects of the guards end: from every start route and for every
\* user a page is shown after at most two redirects and no redirect leads back
\* to the route it left or to the start route; no guard is evaluated before
\* the first callback of onAuthStateChanged.
C30_RedirectsTerminate ==
  /\ [](/\ ui.redirects <= 2
        /\ ui.loading => (~ui.guards /\ ui.shown = "nothing" /\ ui.redirects = 0)
        /\ ~ui.due => ui.shown # "nothing"
        /\ (ui.due /\ ~ui.loading) => ui.redirects + 1 <= 2)
  /\ [][(renderApp /\ Redirected)
          => /\ ui'.path # ui.path
             /\ ui'.path # ui.start
             /\ AppRoutes(ui'.path, ui'.currentUser).kind = "content"]_vars

\* a user who opened / was sent to /home once and sees the page
C30_RootLedHome ==
  /\ ui.start = "/"
  /\ ui.currentUser = User
  /\ ui.redirects = 1
  /\ ui.guards
  /\ ui.shown = "Home"


\* updateBookRating as one step on a document
ratedOnce(doc, body) ==
  ratingFields(doc, body.rating,
               IF Has(body, "reviewCount") /\ body.reviewCount # 0
               THEN body.reviewCount ELSE doc.reviewCount + 1)

\* C22: a rating update and a patch of the same book that run side by side
\* both succeed, and the stored book is what the two give one after the other
\* in one of the two orders.
C22_RatingAndPatchSerialise ==
  (/\ input.id = ObjectId(1)
   /\ Has(input.rating, "rating") /\ input.rating.rating \in 0..5
   /\ DOMAIN input.patch \cap allowedFields # {}
   /\ reply.rating # 0 /\ reply.patch # 0)
    => /\ reply.rating = 200
       /\ reply.patch = 200
       /\ books[1] \in { patchBookFields(ratedOnce(RatedBook, input.rating), input.patch),
                         ratedOnce(patchBookFields(RatedBook, input.patch), input.rating) }

\* C25: updateBookRating on a well-formed id that matches no book answers 404
\* for every valid rating, with or without reviewCount, and changes nothing;
\* a rating outside 0..5 or a missing rating answers 400 and changes nothing.
C25_RatingUnknownBook404 ==
  /\ (/\ reply.rating # 0
      /\ input.id = UnknownId
      /\ Has(input.rating, "rating") /\ input.rating.rating \in 0..5)
       => (reply.rating = 404 /\ books = <<RatedBook>>)
  /\ (/\ reply.rating # 0
      /\ ~Has(input.rating, "rating") \/ input.rating.rating \notin 0..5)
       => /\ reply.rating = 400
          /\ books[1] = IF reply.patch = 200
                        THEN patchBookFields(RatedBook, input.patch) ELSE RatedBook


\* the last call addressed the stored request and was made by an admin
AdminOnStored == reply.id = ObjectId(1) /\ IsAdminCaller(last.caller)

\* the request before and after the last call
Was == reply.before[1]
Is == requests[1]

C27_UpvoteOnlyPending ==
  last.op = "upvote"
    => /\ last.code = 200
            => /\ Is = [Was EXCEPT !.upvotes = @ + 1]
               /\ Was.status = "pending"
       /\ last.code \in {400, 404} => requests = reply.before
       /\ reply.id = MalformedId => last.code = 400
       /\ reply.id = UnknownId => last.code = 404

Rules(m) ==
  LET search == (\E w \in {<<"f", "i", "n", "d">>, <<"s", "e", "a", "r", "c", "h">>, <<"b", "o", "o", "k">>} : Includes(m, w))
  IN  << [hit |-> search /\ (\E w \in {<<"f", "i", "c", "t", "i", "o", "n">>} : Includes(m, w)), reply |-> Canned.fiction],
         [hit |-> search /\ (\E w \in {<<"s", "c", "i", "e", "n", "c", "e">>} : Includes(m, w)), reply |-> Canned.science],
         [hit |-> search /\ (\E w \in {<<"e", "b", "o", "o", "k">>, <<"e", "-", "b", "o", "o", "k">>} : Includes(m, w)), reply |-> Canned.ebook],
         [hit |-> search /\ (\E w \in {<<"a", "u", "d", "i", "o", "b", "o", "o", "k">>} : Includes(m, w)), reply |-> Canned.audiobook],
         [hit |-> search, reply |-> Canned.find],
         [hit |-> (\E w \in {<<"h", "o", "w">>} : Includes(m, w)) /\ (\E w \in {<<"u", "s", "e">>, <<"w", "o", "r", "k">>} : Includes(m, w)), reply |-> Canned.how],
         [hit |-> (\E w \in {<<"r", "e", "c", "o", "m", "m", "e", "n", "d">>, <<"s", "u", "g", "g", "e", "s", "t">>} : Includes(m, w)), reply |-> Canned.recommend],
         [hit |-> (\E w \in {<<"c", "a", "t", "e", "g", "o", "r", "y">>, <<"c", "a", "t", "e", "g", "o", "r", "i", "e", "s">>} : Includes(m, w)), reply |-> Canned.category],
         [hit |-> (\E w \in {<<"r", "e", "q", "u", "e", "s", "t">>, <<"n", "o", "t", " ", "a", "v", "a", "i", "l", "a", "b", "l", "e">>} : Includes(m, w)), reply |-> Canned.request],
         [hit |-> (\E w \in {<<"f", "e", "a", "t", "u", "r", "e">>, <<"w", "h", "a", "t", " ", "c", "a", "n">>} : Includes(m, w)), reply |-> Canned.feature],
         [hit |-> (\E w \in {<<"h", "e", "l", "l", "o">>, <<"h", "i">>, <<"h", "e", "y">>} : Includes(m, w)), reply |-> Canned.greeting],
         [hit |-> TRUE, reply |-> Canned.default] >>

FirstMatch(m) ==
  Rules(m)[CHOOSE i \in DOMAIN Rules(m) :
             Rules(m)[i].hit /\ \A j \in 1..(i - 1) : ~Rules(m)[j].hit].reply

\* the last call was answered by the rule-based fallback
AnsweredByTable ==
  last.op = "chatWithAI" /\ last.code = 200 /\ reply.completion # "content"

\* C26: the fallback is a first-match table on the lower-cased message, in the
\* order search (fiction, science, e-book, audiobook), how-to, recommendation,
\* category, request, feature, greeting; the default is given exactly when no
\* rule matches; the reply depends on the message of the call alone.
C26_FirstMatchTable ==
  AnsweredByTable
    => LET m == ToLowerCase(Trim(input.message)) IN
       /\ reply.response = FirstMatch(m)
       /\ (reply.response = Canned.default)
            = (\A i \in 1..(Len(Rules(m)) - 1) : ~Rules(m)[i].hit)

\* a message with a greeting word and a search word got the search reply
C26_SearchBeforeGreeting ==
  /\ AnsweredByTable
  /\ Includes(input.message, <<"h", "e", "l", "l", "o">>)
  /\ Includes(input.message, <<"f", "i", "n", "d">>)
  /\ reply.response = Canned.find


====
